---- MODULE Spec2Model ----
(***************************************************************************)
(* License issuance (webhook handler with a serialized registry write      *)
(* queue over blob storage) and client-side license validation (signed     *)
(* registry fetch, in-memory and disk caches, local license record).        *)
(***************************************************************************)
EXTENDS Integers, Sequences, FiniteSets, TLC

VARIABLES
  privateBlob,   \* blob licenses/legitimate-licenses.json
  publicBlob,    \* blob licenses/legitimate-licenses.public.json
  writeQueue,    \* module-level promise: id of the task whose chain it is (0 = Promise.resolve())
  tasks,         \* write tasks handed to queueDatabaseWrite, in enqueue order
  now,           \* service clock (Date.now / new Date())
  faults,        \* storage failures injected so far
  blobStorage,   \* which revision of lib/blob-storage.js the service loads
  request,       \* the GET /legitimate-licenses.json request in flight
  response,      \* what the last step answered to a webhook delivery, if it answered
  lastLoad,      \* the loadBlob call of the last step, if it made one
  rateNow,       \* Date.now() as the rate limiters see it
  requests,      \* limiter.requests of both limiters: ip -> timestamps
  admitted,      \* every request let through so far, by limiter and ip
  reply,         \* what the limiter did with the last request
  waiting,       \* the last 429 that has not been followed by an admission
  rateOps,       \* limiter steps taken so far
  env,           \* client environment: public key, NODE_ENV, QAA_DEVELOPER
  remote,        \* what the registry endpoint serves
  disk,          \* legitimate-licenses.json in the license directory
  licenseFile,   \* license.json in the license directory
  backups,       \* timestamps of the license.json.corrupted.<timestamp> files
  dbCache,       \* validator.dbCache
  dbCacheTime,   \* validator.dbCacheTime
  clientNow,     \* client clock (Date.now())
  clientOps,     \* client operations run so far
  lastCall       \* the last validateLicense / activateLicense call and its outcome

serviceVars == <<blobStorage, request, response, lastLoad>>
limiterVars == <<rateNow, requests, admitted, reply, waiting, rateOps>>
serverVars == <<privateBlob, publicBlob, writeQueue, tasks, now, faults, serviceVars,
                limiterVars>>
clientVars == <<env, remote, disk, licenseFile, backups, dbCache, dbCacheTime,
                clientNow, clientOps, lastCall>>
vars == <<serverVars, clientVars>>

(***************************************************************************)
(* Bounds                                                                  *)
(***************************************************************************)
MaxTasks == 3
MaxTime == 2
MaxFaults == 1
MaxClientOps == 4
MaxClientTicks == 2
NumCustomers == 2
NumSubscriptions == 2
MaxDeliveries == 2
NumIps == 2
HealthMaxRequests == 3
DbMaxRequests == 2
SweepSize == 1
MaxRateOps == 6

Customers == 1..NumCustomers
Subscriptions == 1..NumSubscriptions
Emails == {"a@x.io", "B@x.io"}
NoEmail == "null"
NoTime == 0 - 1

(***************************************************************************)
(* lib/license-signing (canonical encoding, hashing, signing)              *)
(***************************************************************************)
HashModulus == 2 ^ 16

NoHash == "null"

\* lower-cased, trimmed address
normalizeEmail(email) ==
  CASE email = "B@x.io" -> "b@x.io"
    [] email = "A@x.io" -> "a@x.io"
    [] OTHER -> email

\* SHA-256 of the normalized address; null when no address is given
hashEmail(email) ==
  IF email = NoEmail THEN NoHash ELSE "sha256:" \o normalizeEmail(email)

\* QAA-XXXX-XXXX-XXXX-XXXX: a license key is the number its hex groups spell
LICENSE_KEY_PATTERN(licenseKey) == licenseKey \in 0..(HashModulus - 1)

\* the exact field set that is signed for one license
buildLicensePayload(licenseKey, tier, isFounder, emailHash, issued) ==
  [licenseKey |-> licenseKey, tier |-> tier, isFounder |-> isFounder,
   emailHash |-> emailHash, issued |-> issued]

RECURSIVE SortedKeys(_)
SortedKeys(S) ==
  IF S = {} THEN << >>
  ELSE LET m == CHOOSE k \in S : \A j \in S : k <= j
       IN <<m>> \o SortedKeys(S \ {m})

\* one object, keys in sorted order
stableStringifyPayload(p) ==
  << <<"emailHash", p.emailHash>>, <<"isFounder", p.isFounder>>,
     <<"issued", p.issued>>, <<"licenseKey", p.licenseKey>>,
     <<"tier", p.tier>> >>

stableStringifyEntry(e) ==
  << <<"emailHash", e.emailHash>>, <<"isFounder", e.isFounder>>,
     <<"issued", e.issued>>, <<"keyId", e.keyId>>,
     <<"signature", e.signature>>, <<"tier", e.tier>> >>

\* a map of license key -> public entry, keys in sorted order
stableStringifyLicenses(licenses) ==
  LET ks == SortedKeys(DOMAIN licenses)
  IN [i \in 1..Len(ks) |-> <<ks[i], stableStringifyEntry(licenses[ks[i]])>>]

Sha256(bytes) == [sha256 |-> bytes]

\* Ed25519: a signature binds the signing key to the signed bytes
signPayload(bytes, privateKey) == [signer |-> privateKey, msg |-> bytes]

PublicKeyOf(privateKey) ==
  CASE privateKey = "priv-registry" -> "pub-registry"
    [] OTHER -> "pub-other"

verifyPayload(bytes, signature, publicKey) ==
  /\ PublicKeyOf(signature.signer) = publicKey
  /\ signature.msg = bytes

(***************************************************************************)
(* Blob storage documents                                                  *)
(***************************************************************************)
NoLicenses == [k \in {} |-> 0]
NoMeta == [version |-> "none"]
NoDoc == [exists |-> FALSE, meta |-> NoMeta, licenses |-> NoLicenses]

LICENSE_REGISTRY_KEY_ID == "default"
LICENSE_REGISTRY_PRIVATE_KEY == "priv-registry"

\* canonical encoding of one private entry: only the fields it has
stableStringifyPrivateEntry(e) ==
  LET base == << <<"addedBy", e.addedBy>>, <<"addedDate", e.addedDate>> >>
      cancel == IF "canceledAt" \in DOMAIN e
                THEN << <<"canceledAt", e.canceledAt>> >> ELSE << >>
      mid == << <<"customerId", e.customerId>>, <<"email", e.email>>,
                <<"isFounder", e.isFounder>>, <<"issued", e.issued>> >>
      status == IF "status" \in DOMAIN e
                THEN << <<"status", e.status>> >> ELSE << >>
      rest == << <<"subscriptionId", e.subscriptionId>>, <<"tier", e.tier>> >>
  IN base \o cancel \o mid \o status \o rest

stableStringifyDatabase(licenses) ==
  LET ks == SortedKeys(DOMAIN licenses)
  IN [i \in 1..Len(ks) |-> <<ks[i], stableStringifyPrivateEntry(licenses[ks[i]])>>]

\* loadBlob: null only when the blob does not exist, an error otherwise
LoadFailures == {"head_error", "fetch_not_ok", "parse_error"}

\* what head() and fetch() can do for a blob: a blob that is not there is
\* never fetched or parsed
LoadOutcomesFor(blob) ==
  {"ok", "head_error"} \cup (IF blob.exists THEN LoadFailures ELSE {})

\* loadBlob as it stood before it threw: null whatever went wrong
loadBlobNullOnError(blob, outcome) ==
  IF outcome = "head_error" THEN [threw |-> FALSE, value |-> NoDoc]
  ELSE IF ~blob.exists THEN [threw |-> FALSE, value |-> NoDoc]
  ELSE IF outcome = "fetch_not_ok" THEN [threw |-> FALSE, value |-> NoDoc]
  ELSE IF outcome = "parse_error" THEN [threw |-> FALSE, value |-> NoDoc]
  ELSE [threw |-> FALSE, value |-> blob]

\* loadBlob: null (NoDoc) for a blob that is not there, an error for every
\* other failure
loadBlob(blob, outcome) ==
  IF outcome = "head_error" THEN [threw |-> TRUE, value |-> NoDoc]
  ELSE IF ~blob.exists THEN [threw |-> FALSE, value |-> NoDoc]
  ELSE IF outcome = "fetch_not_ok" THEN [threw |-> TRUE, value |-> NoDoc]
  ELSE IF outcome = "parse_error" THEN [threw |-> TRUE, value |-> NoDoc]
  ELSE [threw |-> FALSE, value |-> blob]

\* saveBlob with try/catch around put(): null when the write failed
saveBlobNullOnError(outcome) ==
  [threw |-> FALSE, saved |-> outcome = "ok"]

\* saveBlob: put() and its rejection, passed on
saveBlob(outcome) ==
  [threw |-> outcome # "ok", saved |-> outcome = "ok"]

\* require('./lib/blob-storage'): the revision the service was deployed with
StorageRevisions == {"throwing", "null_on_error"}

requireLoadBlob(blob, outcome) ==
  IF blobStorage = "throwing" THEN loadBlob(blob, outcome)
  ELSE loadBlobNullOnError(blob, outcome)

requireSaveBlob(outcome) ==
  IF blobStorage = "throwing" THEN saveBlob(outcome)
  ELSE saveBlobNullOnError(outcome)

NoLoad == [path |-> "none", exists |-> FALSE, outcome |-> "none",
           threw |-> FALSE, returnedNull |-> FALSE]

LoadRecord(path, blob, outcome) ==
  LET loaded == requireLoadBlob(blob, outcome)
  IN [path |-> path, exists |-> blob.exists, outcome |-> outcome,
      threw |-> loaded.threw,
      returnedNull |-> ~loaded.threw /\ ~loaded.value.exists]

\* the document loadLicenseDatabase hands to a task
loadLicenseDatabase(blob, clock) ==
  IF blob.exists THEN blob
  ELSE [exists |-> TRUE,
        meta |-> [version |-> "1.0", created |-> clock,
                  description |-> "Legitimate license database - populated by Stripe webhooks"],
        licenses |-> NoLicenses]

\* entries signed over the address itself, not over its hash
SignedPublicFieldsOverEmail(licenseKey, entry, issuedAt) ==
  LET issued == IF entry.issued # NoTime THEN entry.issued
                ELSE IF entry.addedDate # NoTime THEN entry.addedDate
                ELSE issuedAt
      emailHash == hashEmail(entry.email)
      payload == buildLicensePayload(licenseKey, entry.tier, entry.isFounder,
                                     entry.email, issued)
  IN [tier |-> entry.tier, isFounder |-> entry.isFounder, issued |-> issued,
      emailHash |-> emailHash,
      signature |-> signPayload(stableStringifyPayload(payload),
                                LICENSE_REGISTRY_PRIVATE_KEY),
      keyId |-> LICENSE_REGISTRY_KEY_ID]

\* the fields buildPublicRegistry computes for one entry
SignedPublicFields(licenseKey, entry, issuedAt) ==
  LET issued == IF entry.issued # NoTime THEN entry.issued
                ELSE IF entry.addedDate # NoTime THEN entry.addedDate
                ELSE issuedAt
      emailHash == hashEmail(entry.email)
      payload == buildLicensePayload(licenseKey, entry.tier, entry.isFounder,
                                     emailHash, issued)
  IN [tier |-> entry.tier, isFounder |-> entry.isFounder, issued |-> issued,
      emailHash |-> emailHash,
      signature |-> signPayload(stableStringifyPayload(payload),
                                LICENSE_REGISTRY_PRIVATE_KEY),
      keyId |-> LICENSE_REGISTRY_KEY_ID]

\* a derivation that copies the private entry and adds the signed fields to it
PublicEntrySpread(licenseKey, entry, issuedAt) ==
  SignedPublicFields(licenseKey, entry, issuedAt) @@ entry

\* one redacted, signed entry of the public registry
PublicEntry(licenseKey, entry, issuedAt) ==
  SignedPublicFields(licenseKey, entry, issuedAt)

buildPublicRegistry(database, issuedAt) ==
  LET valid == {k \in DOMAIN database.licenses : LICENSE_KEY_PATTERN(k)}
      publicLicenses == [k \in valid |-> PublicEntry(k, database.licenses[k], issuedAt)]
      bytes == stableStringifyLicenses(publicLicenses)
  IN [exists |-> TRUE,
      meta |-> [version |-> "1.0",
                created |-> IF "created" \in DOMAIN database.meta
                            THEN database.meta.created ELSE issuedAt,
                lastSave |-> issuedAt,
                algorithm |-> "ed25519",
                keyId |-> LICENSE_REGISTRY_KEY_ID,
                registrySignature |-> signPayload(bytes, LICENSE_REGISTRY_PRIVATE_KEY),
                hash |-> Sha256(bytes)],
      licenses |-> publicLicenses]

\* saveLicenseDatabase up to its first write: stamp lastSave and sha256
StampDatabase(database, clock) ==
  [database EXCEPT !.meta =
     [lastSave |-> clock,
      sha256 |-> Sha256(stableStringifyDatabase(database.licenses))] @@ database.meta]

(***************************************************************************)
(* Issuance                                                                *)
(***************************************************************************)
Prices == {"price_1St9K2Gv7Su9XNJbdYoH3K32", "price_1St9KGGv7Su9XNJbrwKMsh1R"}
NoPriceInfo == [tier |-> "none", isFounder |-> FALSE]

\* a price table that falls back to the paid tier
mapPriceToTierDefaulting(priceId) == [tier |-> "PRO", isFounder |-> FALSE]

mapPriceToTier(priceId) ==
  IF priceId \in Prices THEN [tier |-> "PRO", isFounder |-> FALSE] ELSE NoPriceInfo

TierCode(tier) == IF tier = "PRO" THEN 1 ELSE 0
BoolCode(b) == IF b THEN 1 ELSE 0

\* a key that also mixes in how many deliveries were seen before this one
generateLicenseKeyPerDelivery(customerId, tier, isFounder) ==
  ((customerId * 4 + TierCode(tier) * 2 + BoolCode(isFounder)) * 40503
     + Len(tasks) + 1) % HashModulus

\* first 16 hex digits of sha256("customerId:tier:isFounder:cqa-license-v1")
generateLicenseKey(customerId, tier, isFounder) ==
  ((customerId * 4 + TierCode(tier) * 2 + BoolCode(isFounder)) * 40503) % HashModulus

NoInfo == [customerId |-> 0, tier |-> "none", isFounder |-> FALSE,
           email |-> NoEmail, subscriptionId |-> 0]
NoError == [task |-> 0, cause |-> "none"]

\* database[licenseKey] = {...}; metadata lastUpdate / totalLicenses
AddEntry(database, licenseKey, customerInfo, clock) ==
  LET entry == [customerId |-> customerInfo.customerId,
                tier |-> customerInfo.tier,
                isFounder |-> customerInfo.isFounder,
                email |-> customerInfo.email,
                subscriptionId |-> customerInfo.subscriptionId,
                addedDate |-> clock, issued |-> clock,
                addedBy |-> "stripe_webhook"]
      licenses == (licenseKey :> entry) @@ database.licenses
  IN [database EXCEPT
        !.licenses = licenses,
        !.meta = [lastUpdate |-> clock,
                  totalLicenses |-> Cardinality(DOMAIN licenses)] @@ database.meta]

\* a cancellation that also takes the paid tier away from a canceled entry
CancelEntriesDowngrading(database, subscriptionId, clock) ==
  [database EXCEPT !.licenses =
     [k \in DOMAIN database.licenses |->
        IF database.licenses[k].subscriptionId = subscriptionId
        THEN [status |-> "canceled", canceledAt |-> clock, tier |-> "FREE"]
               @@ database.licenses[k]
        ELSE database.licenses[k]]]

\* mark every entry of the subscription canceled
CancelEntries(database, subscriptionId, clock) ==
  [database EXCEPT !.licenses =
     [k \in DOMAIN database.licenses |->
        IF database.licenses[k].subscriptionId = subscriptionId
        THEN [status |-> "canceled", canceledAt |-> clock] @@ database.licenses[k]
        ELSE database.licenses[k]]]

MatchedKeys(database, subscriptionId) ==
  {k \in DOMAIN database.licenses :
     database.licenses[k].subscriptionId = subscriptionId}

(***************************************************************************)
(* The write queue: writeQueue = writeQueue.then(task).catch(() => {})     *)
(***************************************************************************)
Resolved == [state |-> "fulfilled", error |-> NoError]

\* the promise `next` of task t
NextPromise(t) == [state |-> tasks[t].state, error |-> tasks[t].error]

\* a chain that keeps the rejection: writeQueue = next
CatchRethrow(p) == p

\* next.catch(() => {}): settles when next settles, never rejected
CatchSwallow(p) ==
  IF p.state = "rejected" THEN Resolved ELSE p

\* the promise a task was chained on
QueuePromise(q) == IF q = 0 THEN Resolved ELSE CatchSwallow(NextPromise(q))

\* a task that is called at once instead of being chained: next = task()
CanStartUnchained(t) == TRUE

\* .then(task) fires once the promise it hangs on has settled
CanStart(t) == QueuePromise(tasks[t].after).state # "pending"

Settled(t) == tasks[t].state # "pending"

NewTask(kind, licenseKey, customerInfo, subscriptionId) ==
  [kind |-> kind, licenseKey |-> licenseKey, customerInfo |-> customerInfo,
   subscriptionId |-> subscriptionId, after |-> writeQueue, pc |-> "queued",
   database |-> NoDoc, publicRegistry |-> NoDoc, state |-> "pending",
   error |-> NoError, thrown |-> NoError, ran |-> FALSE, wrote |-> FALSE,
   at |-> NoTime, saveFailed |-> FALSE, listedPrice |-> TRUE]

queueDatabaseWrite(task) ==
  /\ tasks' = Append(tasks, task)
  /\ writeQueue' = Len(tasks) + 1

Outcomes == {"ok"} \cup (IF faults < MaxFaults THEN {"error"} ELSE {})

LoadOutcomes(blob) == IF faults < MaxFaults THEN LoadOutcomesFor(blob) ELSE {"ok"}

CountFault(outcome) ==
  faults' = IF outcome # "ok" THEN faults + 1 ELSE faults

Reject(t, cause) ==
  [tasks EXCEPT ![t].state = "rejected", ![t].pc = "done",
                ![t].error = [task |-> t, cause |-> cause],
                ![t].thrown = [task |-> t, cause |-> cause]]

NoResponse == [event |-> "none", status |-> 0, error |-> "none"]

\* POST /webhook after the signature check: res.json, or the catch and its 500
RouteStatus(error) == IF error = "none" THEN 200 ELSE 500

Respond(event, error) ==
  [event |-> event, status |-> RouteStatus(error), error |-> error]

\* the answer to the delivery that queued task t, once `await` returns
ResponseOf(t) ==
  IF tasks[t].state = "pending" THEN NoResponse
  ELSE Respond(IF tasks[t].kind = "issue" THEN "checkout.session.completed"
               ELSE "customer.subscription.deleted",
               tasks[t].error.cause)

\* an absent customer, subscription or price id of an event object
Missing == 0
NoPrice == "none"

\* handleCheckoutCompleted down to addLicenseToDatabase
handleCheckoutCompleted(customerId, email, subscriptionId, priceId) ==
  LET priceInfo == mapPriceToTier(priceId)
      licenseKey == generateLicenseKey(customerId, priceInfo.tier, priceInfo.isFounder)
      customerInfo == [customerId |-> customerId, tier |-> priceInfo.tier,
                       isFounder |-> priceInfo.isFounder, email |-> email,
                       subscriptionId |-> subscriptionId]
      error ==
        IF customerId = Missing \/ subscriptionId = Missing
        THEN "Invalid checkout session: missing customer or subscription"
        ELSE IF priceId = NoPrice THEN "Invalid subscription: missing price ID"
        ELSE IF priceInfo = NoPriceInfo THEN "Unknown Stripe price ID"
        ELSE "none"
  IN /\ IF error # "none"
        THEN /\ response' = Respond("checkout.session.completed", error)
             /\ UNCHANGED <<tasks, writeQueue>>
        ELSE /\ Len(tasks) < MaxTasks
             /\ queueDatabaseWrite(
                  [NewTask("issue", licenseKey, customerInfo, subscriptionId)
                     EXCEPT !.listedPrice = priceId \in Prices])
             /\ response' = NoResponse
     /\ lastLoad' = NoLoad
     /\ UNCHANGED <<privateBlob, publicBlob, now, faults, blobStorage, request,
                    limiterVars, clientVars>>

\* handlePaymentSucceeded: the invoice is checked and logged
handlePaymentSucceeded(invoiceId) ==
  /\ response' = Respond("invoice.payment_succeeded",
                         IF invoiceId = Missing THEN "Invalid invoice: missing id"
                         ELSE "none")
  /\ lastLoad' = NoLoad
  /\ UNCHANGED <<privateBlob, publicBlob, writeQueue, tasks, now, faults,
                 blobStorage, request, limiterVars, clientVars>>

\* handleSubscriptionCanceled down to queueDatabaseWrite
handleSubscriptionCanceled(subscriptionId) ==
  /\ IF subscriptionId = Missing
     THEN /\ response' = Respond("customer.subscription.deleted",
                                 "Invalid subscription: missing id")
          /\ UNCHANGED <<tasks, writeQueue>>
     ELSE /\ Len(tasks) < MaxTasks
          /\ queueDatabaseWrite(NewTask("cancel", 0, NoInfo, subscriptionId))
          /\ response' = NoResponse
  /\ lastLoad' = NoLoad
  /\ UNCHANGED <<privateBlob, publicBlob, now, faults, blobStorage, request,
                 limiterVars, clientVars>>

\* the task body from its start to its first write (or its early end)
TaskStart(t, outcome) ==
  /\ tasks[t].pc = "queued"
  /\ CanStart(t)
  /\ LET upstream == QueuePromise(tasks[t].after)
         loads == /\ upstream.state # "rejected"
                  /\ ~(tasks[t].kind = "issue" /\ ~LICENSE_KEY_PATTERN(tasks[t].licenseKey))
         loaded == requireLoadBlob(privateBlob, outcome)
         database == loadLicenseDatabase(loaded.value, now)
     IN /\ loads \/ outcome = "ok"
        /\ lastLoad' = IF loads THEN LoadRecord("private", privateBlob, outcome)
                       ELSE NoLoad
        /\ tasks' =
          IF upstream.state = "rejected"
          THEN [tasks EXCEPT ![t].state = "rejected", ![t].pc = "done",
                             ![t].error = upstream.error]
          ELSE IF tasks[t].kind = "issue" /\ ~LICENSE_KEY_PATTERN(tasks[t].licenseKey)
          THEN [Reject(t, "format") EXCEPT ![t].ran = TRUE]
          ELSE IF loaded.threw
          THEN [Reject(t, "load") EXCEPT ![t].ran = TRUE]
          ELSE IF tasks[t].kind = "issue"
          THEN [tasks EXCEPT
                  ![t].ran = TRUE, ![t].at = now, ![t].pc = "savingPrivate",
                  ![t].database =
                     StampDatabase(AddEntry(database, tasks[t].licenseKey,
                                            tasks[t].customerInfo, now), now)]
          ELSE IF MatchedKeys(database, tasks[t].subscriptionId) = {}
          THEN [tasks EXCEPT ![t].ran = TRUE, ![t].at = now, ![t].pc = "done",
                             ![t].state = "fulfilled"]
          ELSE [tasks EXCEPT
                  ![t].ran = TRUE, ![t].at = now, ![t].pc = "savingPrivate",
                  ![t].database =
                     StampDatabase(CancelEntries(database, tasks[t].subscriptionId, now),
                                   now)]
  /\ CountFault(outcome)
  /\ response' = NoResponse
  /\ UNCHANGED <<privateBlob, publicBlob, writeQueue, now, blobStorage, request,
                 limiterVars, clientVars>>

\* saveLicenseDatabase: await saveBlob(private), then derive the public registry
TaskSavePrivate(t, outcome) ==
  /\ tasks[t].pc = "savingPrivate"
  /\ CountFault(outcome)
  /\ LET put == requireSaveBlob(outcome)
     IN IF put.threw
        THEN /\ tasks' = [Reject(t, "savePrivate") EXCEPT ![t].saveFailed = TRUE]
             /\ UNCHANGED privateBlob
        ELSE /\ privateBlob' = IF put.saved THEN tasks[t].database ELSE privateBlob
             /\ tasks' = [tasks EXCEPT
                            ![t].pc = "savingPublic", ![t].wrote = put.saved,
                            ![t].saveFailed = ~put.saved,
                            ![t].publicRegistry =
                               buildPublicRegistry(tasks[t].database, now)]
  /\ response' = NoResponse
  /\ lastLoad' = NoLoad
  /\ UNCHANGED <<publicBlob, writeQueue, now, blobStorage, request, limiterVars, clientVars>>

\* saveLicenseDatabase: await saveBlob(public); return true
TaskSavePublic(t, outcome) ==
  /\ tasks[t].pc = "savingPublic"
  /\ CountFault(outcome)
  /\ LET put == requireSaveBlob(outcome)
     IN IF put.threw
        THEN /\ tasks' = [Reject(t, "savePublic") EXCEPT ![t].saveFailed = TRUE]
             /\ UNCHANGED publicBlob
        ELSE /\ publicBlob' = IF put.saved THEN tasks[t].publicRegistry ELSE publicBlob
             /\ tasks' = [tasks EXCEPT ![t].pc = "done", ![t].state = "fulfilled",
                                       ![t].saveFailed = @ \/ ~put.saved]
  /\ response' = NoResponse
  /\ lastLoad' = NoLoad
  /\ UNCHANGED <<privateBlob, writeQueue, now, blobStorage, request, limiterVars, clientVars>>

Tick ==
  /\ now < MaxTime
  /\ now' = now + 1
  /\ response' = NoResponse
  /\ lastLoad' = NoLoad
  /\ UNCHANGED <<privateBlob, publicBlob, writeQueue, tasks, faults, blobStorage,
                 request, limiterVars, clientVars>>

(***************************************************************************)
(* GET /legitimate-licenses.json: loadPublicRegistry, outside the queue    *)
(***************************************************************************)
Idle == [pc |-> "idle", built |-> NoDoc]

\* serveLicenseDatabase: the registry, or 503 when loading it threw
Serve(threw) ==
  [event |-> "GET /legitimate-licenses.json",
   status |-> IF threw THEN 503 ELSE 200,
   error |-> IF threw THEN "License database temporarily unavailable" ELSE "none"]

\* const registry = await loadBlob(BLOB_PATHS.public); if (registry) return registry
RequestStart(outcome) ==
  /\ request.pc = "idle"
  /\ CountFault(outcome)
  /\ LET loaded == requireLoadBlob(publicBlob, outcome)
     IN /\ lastLoad' = LoadRecord("public", publicBlob, outcome)
        /\ IF loaded.threw
           THEN /\ request' = Idle
                /\ response' = Serve(TRUE)
           ELSE IF loaded.value.exists
           THEN /\ request' = Idle
                /\ response' = Serve(FALSE)
           ELSE /\ request' = [pc |-> "loadingPrivate", built |-> NoDoc]
                /\ response' = NoResponse
  /\ UNCHANGED <<privateBlob, publicBlob, writeQueue, tasks, now, blobStorage,
                 limiterVars, clientVars>>

\* const privateDb = await loadLicenseDatabase(); built = buildPublicRegistry(privateDb)
RequestLoadPrivate(outcome) ==
  /\ request.pc = "loadingPrivate"
  /\ CountFault(outcome)
  /\ LET loaded == requireLoadBlob(privateBlob, outcome)
     IN /\ lastLoad' = LoadRecord("private", privateBlob, outcome)
        /\ IF loaded.threw
           THEN /\ request' = Idle
                /\ response' = Serve(TRUE)
           ELSE /\ request' =
                     [pc |-> "savingPublic",
                      built |-> buildPublicRegistry(
                                  loadLicenseDatabase(loaded.value, now), now)]
                /\ response' = NoResponse
  /\ UNCHANGED <<privateBlob, publicBlob, writeQueue, tasks, now, blobStorage,
                 limiterVars, clientVars>>

\* try { await saveBlob(BLOB_PATHS.public, built) } catch { warn }; return built
RequestSavePublic(outcome) ==
  /\ request.pc = "savingPublic"
  /\ CountFault(outcome)
  /\ publicBlob' = IF requireSaveBlob(outcome).saved THEN request.built ELSE publicBlob
  /\ request' = Idle
  /\ response' = Serve(FALSE)
  /\ lastLoad' = NoLoad
  /\ UNCHANGED <<privateBlob, writeQueue, tasks, now, blobStorage, limiterVars, clientVars>>

\* POST /webhook: constructEvent throws, 400 before anything is looked at
WebhookUnverified ==
  /\ response' = [event |-> "unverified", status |-> 400,
                  error |-> "Webhook signature verification failed"]
  /\ lastLoad' = NoLoad
  /\ UNCHANGED <<privateBlob, publicBlob, writeQueue, tasks, now, faults,
                 blobStorage, request, limiterVars, clientVars>>

\* POST /webhook: the default branch of the switch
WebhookUnhandled ==
  /\ response' = Respond("unhandled", "none")
  /\ lastLoad' = NoLoad
  /\ UNCHANGED <<privateBlob, publicBlob, writeQueue, tasks, now, faults,
                 blobStorage, request, limiterVars, clientVars>>

(***************************************************************************)
(* Client: LicenseValidator                                                *)
(***************************************************************************)
NoKey == "none"
NoSignature == [signer |-> "none", msg |-> << >>]
cacheTTL == 5 * 60 * 1000

\* the clock moves in steps of half the cache lifetime
ClockStep == cacheTTL \div 2
ClientStart == cacheTTL

\* key.trim().toUpperCase(): the canonical key whatever the typing
normalizeLicenseKey(key) == key.value

\* userEmail.includes('@')
HasAt(email) == email \in {"a@x.io", "A@x.io", "b@x.io", "B@x.io"}

\* a bypass that looks at QAA_DEVELOPER only
isDevBypassAllowedAnywhere == env.developer

isDevBypassAllowed ==
  IF env.nodeEnv = "production" THEN FALSE ELSE env.developer

\* crypto.timingSafeEqual over equal-length buffers plus the length flag
timingSafeEqual(a, b) == a = b

\* an entry check that accepts every signature
verifySignatureUnchecked(bytes, signature) == TRUE

verifySignature(bytes, signature) ==
  IF env.publicKey = NoKey THEN isDevBypassAllowed
  ELSE verifyPayload(bytes, signature, env.publicKey)

\* database._metadata.registrySignature is set
HasRegistrySignature(database) == "registrySignature" \in DOMAIN database.meta

\* "ok", or the message of the error it throws
verifyRegistrySignature(database) ==
  LET signature == IF HasRegistrySignature(database)
                   THEN database.meta.registrySignature ELSE NoSignature
      bytes == stableStringifyLicenses(database.licenses)
  IN IF signature = NoSignature
     THEN IF isDevBypassAllowed THEN "ok"
          ELSE "license database missing registry signature"
     ELSE IF env.publicKey = NoKey
     THEN IF isDevBypassAllowed THEN "ok"
          ELSE "license public key not configured"
     ELSE IF ~verifyPayload(bytes, signature, env.publicKey)
     THEN "license database signature verification failed"
     ELSE IF /\ "hash" \in DOMAIN database.meta
             /\ ~timingSafeEqual(Sha256(bytes), database.meta.hash)
     THEN "license database hash mismatch"
     ELSE "ok"

\* a client that keeps no disk cache
loadLegitimateDatabaseNoCache(file) == NoLicenses

\* a disk cache that skips verification
loadLegitimateDatabaseUnverified(file) ==
  IF file.kind = "json" THEN file.doc.licenses ELSE NoLicenses

\* the licenses of the disk cache, {} when it is absent, unreadable or rejected
loadLegitimateDatabase(file) ==
  IF file.kind = "absent" THEN NoLicenses
  ELSE IF file.kind = "corrupt" THEN NoLicenses
  ELSE IF verifyRegistrySignature(file.doc) # "ok" THEN NoLicenses
  ELSE file.doc.licenses

\* a fallback that accepts any cache, empty or not
hasCachedDataAlways(cachedDb) == TRUE

\* Object.keys(cachedDb || {}).length > 0
hasCachedData(cachedDb) == DOMAIN cachedDb # {}

NoDataError ==
  "Cannot validate license: network unavailable and no cached database. Please connect to the internet and retry."

\* a cache that is still used when it is exactly cacheTTL old
cacheIsFreshInclusive == dbCache.set /\ clientNow - dbCacheTime <= cacheTTL

\* this.dbCache && now - this.dbCacheTime < this.cacheTTL
cacheIsFresh == dbCache.set /\ clientNow - dbCacheTime < cacheTTL

\* fetchLegitimateDatabase: the licenses it returns or the error it throws,
\* where they came from, and the cache writes it makes
fetchLegitimateDatabase(net) ==
  LET fresh == cacheIsFresh
      netError ==
        IF net = "error" THEN "network"
        ELSE IF remote.kind # "registry" THEN "invalid database format"
        ELSE IF verifyRegistrySignature(remote.doc) # "ok"
        THEN verifyRegistrySignature(remote.doc)
        ELSE "none"
      cachedDb == loadLegitimateDatabase(disk)
  IN IF fresh
     THEN [threw |-> FALSE, licenses |-> dbCache.licenses, src |-> "memory",
           attempted |-> FALSE, netError |-> "none", tampered |-> dbCache.tampered,
           signed |-> dbCache.signed, console |-> {}, cached |-> FALSE]
     ELSE IF netError = "none"
     THEN [threw |-> FALSE, licenses |-> remote.doc.licenses, src |-> "network",
           attempted |-> TRUE, netError |-> "none", tampered |-> remote.tampered,
           signed |-> HasRegistrySignature(remote.doc), console |-> {},
           cached |-> TRUE]
     ELSE IF ~hasCachedData(cachedDb)
     THEN [threw |-> TRUE, licenses |-> NoLicenses, src |-> "none",
           attempted |-> TRUE, netError |-> netError, tampered |-> FALSE,
           signed |-> FALSE,
           console |-> {"No cached license database available"}, cached |-> FALSE]
     ELSE [threw |-> FALSE, licenses |-> cachedDb, src |-> "disk",
           attempted |-> TRUE, netError |-> netError, tampered |-> disk.tampered,
           signed |-> HasRegistrySignature(disk.doc),
           console |-> {"Using cached database"}, cached |-> FALSE]

NoPayload == buildLicensePayload(0, "none", FALSE, NoHash, NoTime)

\* a reader that trusts no stored record
getLocalLicenseDistrusted(file) ==
  [present |-> file.kind = "json", licenseKey |-> file.record.licenseKey,
   valid |-> FALSE, tier |-> file.record.tier,
   isFounder |-> file.record.isFounder, email |-> file.record.email]

\* the catch branch of getLocalLicense: a license.json that does not parse is
\* copied to license.json.corrupted.<Date.now()>
BackupCorrupted(file) ==
  IF file.kind = "corrupt" THEN backups \cup {clientNow} ELSE backups

\* getLocalLicense: null, or the record with its re-verified `valid` flag
getLocalLicense(file) ==
  IF file.kind # "json"
  THEN [present |-> FALSE, licenseKey |-> 0, valid |-> FALSE, tier |-> "none",
        isFounder |-> FALSE, email |-> NoEmail]
  ELSE [present |-> TRUE,
        licenseKey |-> file.record.licenseKey,
        valid |-> IF file.record.payload # NoPayload /\ file.record.signature # NoSignature
                  THEN verifySignature(stableStringifyPayload(file.record.payload),
                                       file.record.signature)
                  ELSE FALSE,
        tier |-> file.record.tier,
        isFounder |-> file.record.isFounder,
        email |-> file.record.email]

Failure(error) ==
  [valid |-> FALSE, error |-> error, tier |-> "none", isFounder |-> FALSE,
   email |-> NoEmail, source |-> "none", payload |-> NoPayload,
   signature |-> NoSignature]

\* the lookup and checks validateLicense makes on the registry it was given
LookupLicense(legitimateDB, normalizedKey, userEmail) ==
  LET licenseInfo == legitimateDB[normalizedKey]
      emailHash == hashEmail(userEmail)
      payload == buildLicensePayload(normalizedKey, licenseInfo.tier,
                                     licenseInfo.isFounder, licenseInfo.emailHash,
                                     licenseInfo.issued)
  IN IF DOMAIN legitimateDB = {} THEN Failure("REGISTRY_EMPTY")
     ELSE IF normalizedKey \notin DOMAIN legitimateDB THEN Failure("KEY_NOT_FOUND")
     ELSE IF userEmail # NoEmail /\ ~HasAt(userEmail) THEN Failure("INVALID_EMAIL")
     ELSE IF /\ emailHash # NoHash
             /\ licenseInfo.emailHash # NoHash
             /\ ~timingSafeEqual(licenseInfo.emailHash, emailHash)
     THEN Failure("EMAIL_MISMATCH")
     ELSE IF licenseInfo.signature = NoSignature THEN Failure("MISSING_SIGNATURE")
     ELSE IF ~verifySignature(stableStringifyPayload(payload), licenseInfo.signature)
     THEN Failure("SIGNATURE_INVALID")
     ELSE [valid |-> TRUE, error |-> "none", tier |-> licenseInfo.tier,
           isFounder |-> licenseInfo.isFounder, email |-> userEmail,
           source |-> "legitimate_database", payload |-> payload,
           signature |-> licenseInfo.signature]

\* validateLicense: its result and the fetch it made (if any)
validateLicense(licenseKey, userEmail, net) ==
  LET normalizedKey == normalizeLicenseKey(licenseKey)
      localLicense == getLocalLicense(licenseFile)
      fetched == fetchLegitimateDatabase(net)
  IN IF localLicense.present /\ localLicense.licenseKey = normalizedKey
        /\ localLicense.valid
     THEN [result |-> [valid |-> TRUE, error |-> "none", tier |-> localLicense.tier,
                       isFounder |-> localLicense.isFounder,
                       email |-> localLicense.email, source |-> "local_file",
                       payload |-> NoPayload, signature |-> NoSignature],
           fetch |-> [threw |-> FALSE, licenses |-> NoLicenses, src |-> "none",
                      attempted |-> FALSE, netError |-> "none", tampered |-> FALSE,
                      signed |-> FALSE, console |-> {}, cached |-> FALSE],
           fetched |-> FALSE]
     ELSE IF fetched.threw
     THEN [result |-> Failure("INTERNAL_ERROR"),
           fetch |-> [fetched EXCEPT !.console =
                        @ \cup {"License validation error: " \o NoDataError}],
           fetched |-> TRUE]
     ELSE [result |-> LookupLicense(fetched.licenses, normalizedKey, userEmail),
           fetch |-> fetched, fetched |-> TRUE]

(***************************************************************************)
(* Client: licensing.js                                                    *)
(***************************************************************************)
\* developer mode: never in production; QAA_DEVELOPER or the marker file
isDeveloperMode ==
  IF env.nodeEnv = "production" THEN FALSE
  ELSE IF env.developer THEN TRUE
  ELSE env.marker

\* a properly formatted key is accepted for any tier (the legacy prefix form
\* does not arise for generated keys)
validateLicenseKey(key, tier) == LICENSE_KEY_PATTERN(key)

FreeInfo(error) ==
  [tier |-> "FREE", valid |-> TRUE, email |-> NoEmail, isFounder |-> FALSE,
   isDeveloper |-> FALSE, error |-> error]

\* a license info that reports whatever tier the record names
getLicenseInfoUnverified ==
  IF licenseFile.kind = "json"
  THEN [tier |-> licenseFile.record.tier, valid |-> TRUE,
        email |-> licenseFile.record.email,
        isFounder |-> licenseFile.record.isFounder, isDeveloper |-> FALSE,
        error |-> "none"]
  ELSE FreeInfo("none")

getLicenseInfo ==
  LET localLicense == getLocalLicense(licenseFile)
  IN IF isDeveloperMode
     THEN [tier |-> "PRO", valid |-> TRUE, email |-> "developer@localhost",
           isFounder |-> FALSE, isDeveloper |-> TRUE, error |-> "none"]
     ELSE IF ~localLicense.present THEN FreeInfo("none")
     ELSE IF localLicense.email = NoEmail THEN FreeInfo("Invalid license format")
     ELSE IF ~localLicense.valid
     THEN FreeInfo("License signature verification failed - license may have been tampered with")
     ELSE IF ~validateLicenseKey(localLicense.licenseKey, localLicense.tier)
     THEN FreeInfo("Invalid license key")
     ELSE [tier |-> localLicense.tier, valid |-> TRUE, email |-> localLicense.email,
           isFounder |-> localLicense.isFounder, isDeveloper |-> FALSE,
           error |-> "none"]

\* a fetch that caches what the endpoint returned before verifying it
ApplyFetchUnverified(fetch) ==
  IF fetch.attempted /\ remote.kind = "registry"
  THEN /\ disk' = [kind |-> "json", doc |-> remote.doc, tampered |-> remote.tampered]
       /\ dbCache' = [set |-> TRUE, licenses |-> remote.doc.licenses,
                      tampered |-> remote.tampered,
                      signed |-> HasRegistrySignature(remote.doc)]
       /\ dbCacheTime' = clientNow
  ELSE UNCHANGED <<disk, dbCache, dbCacheTime>>

\* the cache writes of a successful network fetch
ApplyFetch(fetch) ==
  IF fetch.cached
  THEN /\ disk' = [kind |-> "json", doc |-> remote.doc, tampered |-> remote.tampered]
       /\ dbCache' = [set |-> TRUE, licenses |-> remote.doc.licenses,
                      tampered |-> remote.tampered,
                      signed |-> HasRegistrySignature(remote.doc)]
       /\ dbCacheTime' = clientNow
  ELSE UNCHANGED <<disk, dbCache, dbCacheTime>>

Call(op, licenseKey, userEmail, net, validation, result) ==
  [op |-> op, key |-> normalizeLicenseKey(licenseKey), email |-> userEmail,
   net |-> net, attempted |-> validation.fetch.attempted,
   netError |-> validation.fetch.netError, src |-> validation.fetch.src,
   threw |-> validation.fetch.threw, console |-> validation.fetch.console,
   usedTampered |-> validation.fetch.tampered,
   usedSigned |-> validation.fetch.signed,
   licenses |-> validation.fetch.licenses,
   validation |-> validation.result, result |-> result, wroteRecord |-> FALSE]

NoCall ==
  [op |-> "none", key |-> 0, email |-> NoEmail, net |-> "none",
   attempted |-> FALSE, netError |-> "none", src |-> "none", threw |-> FALSE,
   console |-> {}, usedTampered |-> FALSE, usedSigned |-> FALSE,
   licenses |-> NoLicenses,
   validation |-> Failure("none"), result |-> Failure("none"),
   wroteRecord |-> FALSE]

NoLicenseFile ==
  [kind |-> "absent",
   record |-> [licenseKey |-> 0, tier |-> "none", isFounder |-> FALSE,
               email |-> NoEmail, payload |-> NoPayload, signature |-> NoSignature,
               source |-> "none", activated |-> NoTime, verifiedAt |-> NoTime]]

ClientAtRest ==
  /\ env = [publicKey |-> "pub-registry", nodeEnv |-> "production", developer |-> FALSE,
            marker |-> FALSE]
  /\ remote = [kind |-> "garbage", doc |-> NoDoc, tampered |-> FALSE]
  /\ disk = [kind |-> "absent", doc |-> NoDoc, tampered |-> FALSE]
  /\ licenseFile = NoLicenseFile
  /\ backups = {}
  /\ dbCache = [set |-> FALSE, licenses |-> NoLicenses, tampered |-> FALSE,
               signed |-> FALSE]
  /\ dbCacheTime = 0
  /\ clientNow = ClientStart
  /\ clientOps = 0
  /\ lastCall = NoCall

(***************************************************************************)
(* RateLimiter: sliding window per client IP                               *)
(***************************************************************************)
windowMs == 60000
Limiters == {"health", "db"}
Ips == 1..NumIps

\* new RateLimiter(60000, 60) and new RateLimiter(60000, 30), scaled down
maxRequests(limiter) ==
  IF limiter = "health" THEN HealthMaxRequests ELSE DbMaxRequests

\* timestamps.filter(ts => now - ts < this.windowMs)
Live(timestamps, t) ==
  SelectSeq(timestamps, LAMBDA ts : t - ts < windowMs)

\* a limit that lets one request too many through
IsLimitedOffByOne(timestamps, limiter) == Len(timestamps) > maxRequests(limiter)

\* timestamps.length >= this.maxRequests
IsLimited(timestamps, limiter) == Len(timestamps) >= maxRequests(limiter)

\* seconds to wait, rounded down
retryAfterFloor(oldestTimestamp, t) ==
  (oldestTimestamp + windowMs - t) \div 1000

\* Math.ceil((oldestTimestamp + this.windowMs - now) / 1000)
retryAfterSeconds(oldestTimestamp, t) ==
  (oldestTimestamp + windowMs - t + 999) \div 1000

\* this.requests.get(ip) || []
StoredTimestamps(limiter, ip) ==
  IF ip \in DOMAIN requests[limiter] THEN requests[limiter][ip] ELSE << >>

\* the cleanup loop: entries with no timestamp left in the window are deleted
Sweep(map, t) ==
  IF Cardinality(DOMAIN map) > SweepSize
  THEN [k \in {j \in DOMAIN map : Live(map[j], t) # << >>} |-> map[k]]
  ELSE map

NoReply ==
  [limiter |-> "none", ip |-> 0, status |-> 0, retryAfter |-> 0, at |-> 0,
   dueRetry |-> FALSE, swept |-> FALSE]
NoWait == [limiter |-> "none", ip |-> 0, until |-> 0]

\* the middleware for one request
RateLimited(limiter, ip) ==
  LET timestamps == Live(StoredTimestamps(limiter, ip), rateNow)
      pushed == (ip :> Append(timestamps, rateNow)) @@ requests[limiter]
      due == /\ waiting.limiter = limiter
             /\ waiting.ip = ip
             /\ rateNow = waiting.until
  IN /\ rateOps < MaxRateOps
     /\ rateOps' = rateOps + 1
     /\ IF IsLimited(timestamps, limiter)
        THEN /\ reply' = [limiter |-> limiter, ip |-> ip, status |-> 429,
                          retryAfter |-> retryAfterSeconds(timestamps[1], rateNow),
                          at |-> rateNow, dueRetry |-> due, swept |-> FALSE]
             /\ waiting' = [limiter |-> limiter, ip |-> ip,
                            until |-> rateNow
                                      + retryAfterSeconds(timestamps[1], rateNow) * 1000]
             /\ UNCHANGED <<requests, admitted>>
        ELSE /\ requests' = [requests EXCEPT ![limiter] = Sweep(pushed, rateNow)]
             /\ admitted' = [admitted EXCEPT ![limiter][ip] = Append(@, rateNow)]
             /\ reply' = [limiter |-> limiter, ip |-> ip, status |-> 200,
                          retryAfter |-> 0, at |-> rateNow, dueRetry |-> due,
                          swept |-> Sweep(pushed, rateNow) # pushed]
             /\ waiting' = IF waiting.limiter = limiter /\ waiting.ip = ip
                           THEN NoWait ELSE waiting
     /\ UNCHANGED rateNow

\* app.get('/health', healthRateLimiter.middleware(), ...)
HealthRequest ==
  /\ \E ip \in Ips : RateLimited("health", ip)
  /\ UNCHANGED <<privateBlob, publicBlob, writeQueue, tasks, now, faults,
                 serviceVars, clientVars>>

\* app.get('/legitimate-licenses.json', dbRateLimiter.middleware(), ...)
DbRequest ==
  /\ \E ip \in Ips : RateLimited("db", ip)
  /\ UNCHANGED <<privateBlob, publicBlob, writeQueue, tasks, now, faults,
                 serviceVars, clientVars>>

\* Date.now() moves on: by a millisecond, a second, or a millisecond short of
\* the window
ClockSteps == {1, 1000, windowMs - 1}

RateClock ==
  /\ rateOps < MaxRateOps
  /\ rateOps' = rateOps + 1
  /\ \E d \in ClockSteps : rateNow' = rateNow + d
  /\ reply' = NoReply
  /\ UNCHANGED <<requests, admitted, waiting>>
  /\ UNCHANGED <<privateBlob, publicBlob, writeQueue, tasks, now, faults,
                 serviceVars, clientVars>>

\* the rejected client waits for the retryAfter it was given
WaitRetryAfter ==
  /\ rateOps < MaxRateOps
  /\ rateOps' = rateOps + 1
  /\ waiting # NoWait
  /\ rateNow < waiting.until
  /\ rateNow' = waiting.until
  /\ reply' = NoReply
  /\ UNCHANGED <<requests, admitted, waiting>>
  /\ UNCHANGED <<privateBlob, publicBlob, writeQueue, tasks, now, faults,
                 serviceVars, clientVars>>

LimiterAtRest ==
  /\ rateNow = 0
  /\ requests = [l \in Limiters |-> [ip \in {} |-> << >>]]
  /\ admitted = [l \in Limiters |-> [ip \in Ips |-> << >>]]
  /\ reply = NoReply
  /\ waiting = NoWait
  /\ rateOps = 0

\* the service with the storage module its handler is written against,
\* no request in flight and nothing answered yet
ServiceAtRest ==
  /\ blobStorage = "throwing"
  /\ request = Idle
  /\ response = NoResponse
  /\ lastLoad = NoLoad

Init ==
  /\ privateBlob = NoDoc
  /\ publicBlob = NoDoc
  /\ writeQueue = 0
  /\ tasks = << >>
  /\ now = 1
  /\ faults = 0
  /\ ServiceAtRest
  /\ LimiterAtRest
  /\ ClientAtRest

\* the address the payment processor holds for a customer
CustomerEmail(c) == IF c = 1 THEN "a@x.io" ELSE "B@x.io"

CheckoutCompleted ==
  \E c \in Customers, s \in Subscriptions, p \in Prices :
    handleCheckoutCompleted(c, CustomerEmail(c), s, p)

SubscriptionCanceled ==
  \E s \in Subscriptions : handleSubscriptionCanceled(s)

StartStep ==
  \E t \in 1..Len(tasks), o \in LoadOutcomes(privateBlob) : TaskStart(t, o)
SavePrivateStep == \E t \in 1..Len(tasks), o \in Outcomes : TaskSavePrivate(t, o)
SavePublicStep == \E t \in 1..Len(tasks), o \in Outcomes : TaskSavePublic(t, o)

Next ==
  \/ CheckoutCompleted
  \/ SubscriptionCanceled
  \/ StartStep
  \/ SavePrivateStep
  \/ SavePublicStep
  \/ Tick

Spec == Init /\ [][Next]_vars

TypeOK ==
  /\ writeQueue \in 0..MaxTasks
  /\ Len(tasks) <= MaxTasks
  /\ now \in 1..MaxTime
  /\ faults \in 0..MaxFaults

(***************************************************************************)
(* Client environment: what is served, what is on disk                     *)
(***************************************************************************)
K1 == generateLicenseKey(1, "PRO", FALSE)
K2 == generateLicenseKey(2, "PRO", FALSE)
K3 == generateLicenseKey(3, "PRO", FALSE)

\* keys as typed: canonical, or padded and in lower case
KeyInputs ==
  {[value |-> k, style |-> "QAA-ABCD"] : k \in {K1, K2, K3}}
    \cup {[value |-> K1, style |-> " qaa-abcd "]}
EmailInputs == {"a@x.io", "B@x.io", "nobody", NoEmail}
NetOutcomes == {"ok", "error"}

SampleInfo(c) ==
  [customerId |-> c, tier |-> "PRO", isFounder |-> FALSE,
   email |-> CustomerEmail(c), subscriptionId |-> c]

\* the private registry after customers 1 and 2 checked out
SampleDatabase ==
  AddEntry(AddEntry(loadLicenseDatabase(NoDoc, 1), K1, SampleInfo(1), 1),
           K2, SampleInfo(2), 1)

\* a registry document signed over the given entries (admin tooling)
SignRegistry(licenses, privateKey) ==
  LET bytes == stableStringifyLicenses(licenses)
  IN [exists |-> TRUE,
      meta |-> [version |-> "1.0", created |-> 1, lastUpdate |-> 1,
                description |-> "Legitimate license database - populated by admin/webhook",
                algorithm |-> "ed25519", keyId |-> LICENSE_REGISTRY_KEY_ID,
                registrySignature |-> signPayload(bytes, privateKey),
                hash |-> Sha256(bytes),
                totalLicenses |-> Cardinality(DOMAIN licenses)],
      licenses |-> licenses]

GoodRegistry == buildPublicRegistry(SampleDatabase, 1)
EmptyRegistry == buildPublicRegistry(loadLicenseDatabase(NoDoc, 1), 1)

\* a correctly signed registry with one sound entry, one entry signed with
\* another key and one entry without a signature
MixedRegistry ==
  LET e1 == PublicEntry(K1, SampleDatabase.licenses[K1], 1)
      e2 == PublicEntry(K2, SampleDatabase.licenses[K2], 1)
  IN SignRegistry(
       (K1 :> e1)
       @@ (K2 :> [e2 EXCEPT !.signature = signPayload(e2.signature.msg, "priv-other")])
       @@ (K3 :> [e2 EXCEPT !.signature = NoSignature]),
       LICENSE_REGISTRY_PRIVATE_KEY)

\* a registry signed, entries included, with a key that is not the registry's
ForgedRegistry ==
  LET e1 == PublicEntry(K1, SampleDatabase.licenses[K1], 1)
  IN SignRegistry(
       (K1 :> [e1 EXCEPT !.signature = signPayload(e1.signature.msg, "priv-other")]),
       "priv-other")

\* the file initialize() writes when there is none
InitialDB ==
  [exists |-> TRUE,
   meta |-> [version |-> "1.0", created |-> 1,
             description |-> "Legitimate license database - populated by webhook/admin"],
   licenses |-> NoLicenses]

\* the entries of the good registry in a document nobody signed
UnsignedRegistry ==
  [exists |-> TRUE,
   meta |-> [version |-> "1.0", created |-> 1,
             description |-> "Legitimate license database - populated by webhook/admin"],
   licenses |-> GoodRegistry.licenses]

RegistryDocs ==
  {GoodRegistry, EmptyRegistry, MixedRegistry, ForgedRegistry, UnsignedRegistry}

EntryFields == {"tier", "isFounder", "issued", "emailHash", "signature", "keyId"}

\* one field of one entry changed, hash and registrySignature left as they were
TamperEntry(doc, k, field) ==
  LET e == doc.licenses[k]
      changed ==
        CASE field = "tier" -> [e EXCEPT !.tier = IF @ = "PRO" THEN "FREE" ELSE "PRO"]
          [] field = "isFounder" -> [e EXCEPT !.isFounder = ~@]
          [] field = "issued" -> [e EXCEPT !.issued = @ + 1]
          [] field = "emailHash" ->
               [e EXCEPT !.emailHash = IF @ = hashEmail("a@x.io")
                                       THEN hashEmail("B@x.io") ELSE hashEmail("a@x.io")]
          [] field = "signature" ->
               [e EXCEPT !.signature = IF @ = NoSignature
                                       THEN signPayload(<< >>, "priv-other")
                                       ELSE signPayload(@.msg, IF @.signer = "priv-other"
                                                               THEN "priv-third"
                                                               ELSE "priv-other")]
          [] OTHER -> [e EXCEPT !.keyId = "other"]
  IN [doc EXCEPT !.licenses = (k :> changed) @@ doc.licenses]

Environments ==
  {[publicKey |-> "pub-registry", nodeEnv |-> "production", developer |-> FALSE,
    marker |-> FALSE],
   [publicKey |-> "pub-registry", nodeEnv |-> "development", developer |-> TRUE,
    marker |-> FALSE],
   [publicKey |-> NoKey, nodeEnv |-> "development", developer |-> TRUE,
    marker |-> FALSE],
   [publicKey |-> NoKey, nodeEnv |-> "production", developer |-> TRUE,
    marker |-> FALSE],
   [publicKey |-> "pub-registry", nodeEnv |-> "development", developer |-> FALSE,
    marker |-> TRUE],
   [publicKey |-> "pub-registry", nodeEnv |-> "production", developer |-> TRUE,
    marker |-> TRUE]}

ServeRegistry ==
  /\ clientOps < MaxClientOps
  /\ clientOps' = clientOps + 1
  /\ \E doc \in RegistryDocs :
       remote' = [kind |-> "registry", doc |-> doc, tampered |-> FALSE]
  /\ lastCall' = NoCall
  /\ UNCHANGED <<serverVars, backups, env, disk, licenseFile, dbCache, dbCacheTime,
                 clientNow>>

TamperRemote ==
  /\ clientOps < MaxClientOps
  /\ clientOps' = clientOps + 1
  /\ remote.kind = "registry"
  /\ ~remote.tampered
  /\ verifyRegistrySignature(remote.doc) = "ok"
  /\ \E k \in DOMAIN remote.doc.licenses, f \in EntryFields :
       remote' = [remote EXCEPT !.doc = TamperEntry(@, k, f), !.tampered = TRUE]
  /\ lastCall' = NoCall
  /\ UNCHANGED <<serverVars, backups, env, disk, licenseFile, dbCache, dbCacheTime,
                 clientNow>>

TamperDisk ==
  /\ clientOps < MaxClientOps
  /\ clientOps' = clientOps + 1
  /\ disk.kind = "json"
  /\ ~disk.tampered
  /\ verifyRegistrySignature(disk.doc) = "ok"
  /\ \E k \in DOMAIN disk.doc.licenses, f \in EntryFields :
       disk' = [disk EXCEPT !.doc = TamperEntry(@, k, f), !.tampered = TRUE]
  /\ lastCall' = NoCall
  /\ UNCHANGED <<serverVars, backups, env, remote, licenseFile, dbCache, dbCacheTime,
                 clientNow>>

\* the cache file is truncated or deleted
DamageDisk ==
  /\ clientOps < MaxClientOps
  /\ clientOps' = clientOps + 1
  /\ disk.kind = "json"
  /\ \E kind \in {"corrupt", "absent"} :
       disk' = [kind |-> kind, doc |-> NoDoc, tampered |-> FALSE]
  /\ lastCall' = NoCall
  /\ UNCHANGED <<serverVars, backups, env, remote, licenseFile, dbCache, dbCacheTime,
                 clientNow>>

ValidateLicense ==
  /\ clientOps < MaxClientOps
  /\ \E licenseKey \in KeyInputs, userEmail \in EmailInputs, net \in NetOutcomes :
       LET validation == validateLicense(licenseKey, userEmail, net)
       IN /\ IF validation.fetched THEN ApplyFetch(validation.fetch)
             ELSE UNCHANGED <<disk, dbCache, dbCacheTime>>
          /\ lastCall' = Call("validate", licenseKey, userEmail, net, validation,
                              validation.result)
  /\ clientOps' = clientOps + 1
  /\ backups' = BackupCorrupted(licenseFile)
  /\ UNCHANGED <<serverVars, env, remote, licenseFile, clientNow>>

\* saveLicense: initialize(), then write license.json
ActivateLicense ==
  /\ clientOps < MaxClientOps
  /\ \E licenseKey \in KeyInputs, userEmail \in EmailInputs, net \in NetOutcomes :
       LET normalizedKey == normalizeLicenseKey(licenseKey)
           formatOk == LICENSE_KEY_PATTERN(normalizedKey)
           emailOk == userEmail # NoEmail /\ HasAt(userEmail)
           validation == validateLicense(licenseKey, userEmail, net)
           v == validation.result
           saves == formatOk /\ emailOk /\ v.valid
           signed == v.payload # NoPayload /\ v.signature # NoSignature
           notRun == [result |-> Failure("none"),
                      fetch |-> [threw |-> FALSE, licenses |-> NoLicenses,
                                 src |-> "none", attempted |-> FALSE,
                                 netError |-> "none", tampered |-> FALSE,
                                 signed |-> FALSE, console |-> {},
                                 cached |-> FALSE],
                      fetched |-> FALSE]
           result ==
             IF ~formatOk THEN Failure("INVALID_KEY_FORMAT")
             ELSE IF ~emailOk THEN Failure("EMAIL_REQUIRED")
             ELSE IF ~v.valid THEN v
             ELSE IF ~signed THEN Failure("SAVE_FAILED")
             ELSE v
       IN /\ IF formatOk /\ emailOk /\ validation.fetched /\ validation.fetch.cached
             THEN ApplyFetch(validation.fetch)
             ELSE /\ UNCHANGED <<dbCache, dbCacheTime>>
                  /\ disk' = IF saves /\ disk.kind = "absent"
                             THEN [kind |-> "json", doc |-> InitialDB, tampered |-> FALSE]
                             ELSE disk
          /\ licenseFile' =
               IF saves /\ signed
               THEN [kind |-> "json",
                     record |-> [licenseKey |-> normalizedKey, tier |-> v.tier,
                                 isFounder |-> v.isFounder, email |-> userEmail,
                                 payload |-> v.payload, signature |-> v.signature,
                                 source |-> v.source, activated |-> clientNow,
                                 verifiedAt |-> clientNow]]
               ELSE licenseFile
          /\ lastCall' = [Call("activate", licenseKey, userEmail, net,
                                   IF formatOk /\ emailOk THEN validation ELSE notRun,
                                   result)
                              EXCEPT !.wroteRecord = saves /\ signed]
          /\ backups' = IF formatOk /\ emailOk THEN BackupCorrupted(licenseFile)
                         ELSE backups
  /\ clientOps' = clientOps + 1
  /\ UNCHANGED <<serverVars, env, remote, clientNow>>

RecordEdits == {"unsigned", "forged", "payload"}

\* license.json after somebody edited it by hand
EditRecord(record, edit) ==
  CASE edit = "unsigned" ->
         [record EXCEPT !.payload = NoPayload, !.signature = NoSignature]
    [] edit = "forged" ->
         [record EXCEPT !.signature = signPayload(@.msg, "priv-other")]
    [] OTHER ->
         [record EXCEPT !.payload.isFounder = ~@]

EditLicenseFile ==
  /\ clientOps < MaxClientOps
  /\ clientOps' = clientOps + 1
  /\ licenseFile.kind = "json"
  /\ \E edit \in RecordEdits :
       /\ EditRecord(licenseFile.record, edit) # licenseFile.record
       /\ licenseFile' = [licenseFile EXCEPT !.record = EditRecord(@, edit)]
  /\ lastCall' = NoCall
  /\ UNCHANGED <<serverVars, backups, env, remote, disk, dbCache, dbCacheTime, clientNow>>

RemoveLicense ==
  /\ clientOps < MaxClientOps
  /\ clientOps' = clientOps + 1
  /\ licenseFile.kind # "absent"
  /\ licenseFile' = NoLicenseFile
  /\ lastCall' = NoCall
  /\ UNCHANGED <<serverVars, backups, env, remote, disk, dbCache, dbCacheTime, clientNow>>

\* license.json is truncated or overwritten with something that is not JSON
CorruptLicenseFile ==
  /\ clientOps < MaxClientOps
  /\ clientOps' = clientOps + 1
  /\ licenseFile.kind = "json"
  /\ licenseFile' = [licenseFile EXCEPT !.kind = "corrupt"]
  /\ lastCall' = NoCall
  /\ UNCHANGED <<serverVars, backups, env, remote, disk, dbCache, dbCacheTime,
                 clientNow>>

TopLevelEdits == {"tier", "licenseKey"}

\* license.json with a top-level field edited by hand, payload and signature
\* left as they were
EditTopLevel(record, edit) ==
  IF edit = "tier"
  THEN [record EXCEPT !.tier = IF @ = "PRO" THEN "FREE" ELSE "PRO"]
  ELSE [record EXCEPT !.licenseKey = IF @ = K2 THEN K1 ELSE K2]

EditLicenseTopLevel ==
  /\ clientOps < MaxClientOps
  /\ clientOps' = clientOps + 1
  /\ licenseFile.kind = "json"
  /\ \E edit \in TopLevelEdits :
       licenseFile' = [licenseFile EXCEPT !.record = EditTopLevel(@, edit)]
  /\ lastCall' = NoCall
  /\ UNCHANGED <<serverVars, backups, env, remote, disk, dbCache, dbCacheTime,
                 clientNow>>

\* a program start that asks getLicenseInfo() which tier applies
GetLicenseInfo ==
  /\ clientOps < MaxClientOps
  /\ clientOps' = clientOps + 1
  /\ backups' = IF isDeveloperMode THEN backups ELSE BackupCorrupted(licenseFile)
  /\ lastCall' = [NoCall EXCEPT !.op = "info"]
  /\ UNCHANGED <<serverVars, env, remote, disk, licenseFile, dbCache, dbCacheTime,
                 clientNow>>

\* a new process: a new LicenseValidator with an empty in-memory cache
Restart ==
  /\ clientOps < MaxClientOps
  /\ clientOps' = clientOps + 1
  /\ dbCache.set
  /\ dbCache' = [set |-> FALSE, licenses |-> NoLicenses, tampered |-> FALSE,
               signed |-> FALSE]
  /\ dbCacheTime' = 0
  /\ lastCall' = NoCall
  /\ UNCHANGED <<serverVars, backups, env, remote, disk, licenseFile, clientNow>>

ClientTick ==
  /\ clientOps < MaxClientOps
  /\ clientOps' = clientOps + 1
  /\ clientNow < ClientStart + MaxClientTicks * ClockStep
  /\ clientNow' = clientNow + ClockStep
  /\ lastCall' = NoCall
  /\ UNCHANGED <<serverVars, backups, env, remote, disk, licenseFile, dbCache, dbCacheTime>>

ClientInit ==
  /\ privateBlob = NoDoc
  /\ publicBlob = NoDoc
  /\ writeQueue = 0
  /\ tasks = << >>
  /\ now = 1
  /\ faults = 0
  /\ ServiceAtRest
  /\ LimiterAtRest
  /\ env \in Environments
  /\ remote = [kind |-> "garbage", doc |-> NoDoc, tampered |-> FALSE]
  /\ disk = [kind |-> "absent", doc |-> NoDoc, tampered |-> FALSE]
  /\ licenseFile = NoLicenseFile
  /\ backups = {}
  /\ dbCache = [set |-> FALSE, licenses |-> NoLicenses, tampered |-> FALSE,
               signed |-> FALSE]
  /\ dbCacheTime = 0
  /\ clientNow = ClientStart
  /\ clientOps = 0
  /\ lastCall = NoCall

ClientNext ==
  \/ ServeRegistry
  \/ DamageDisk
  \/ ValidateLicense
  \/ ActivateLicense
  \/ EditLicenseFile
  \/ RemoveLicense
  \/ Restart
  \/ ClientTick

ClientSpec == ClientInit /\ [][ClientNext]_vars

\* a new client facing a registry that is already being served
TamperInit ==
  /\ privateBlob = NoDoc
  /\ publicBlob = NoDoc
  /\ writeQueue = 0
  /\ tasks = << >>
  /\ now = 1
  /\ faults = 0
  /\ ServiceAtRest
  /\ LimiterAtRest
  /\ env \in {e \in Environments : ~e.marker}
  /\ \E doc \in RegistryDocs :
       remote = [kind |-> "registry", doc |-> doc, tampered |-> FALSE]
  /\ disk = [kind |-> "absent", doc |-> NoDoc, tampered |-> FALSE]
  /\ licenseFile = NoLicenseFile
  /\ backups = {}
  /\ dbCache = [set |-> FALSE, licenses |-> NoLicenses, tampered |-> FALSE,
               signed |-> FALSE]
  /\ dbCacheTime = 0
  /\ clientNow = ClientStart
  /\ clientOps = 0
  /\ lastCall = NoCall

\* the client where served and cached registries are edited behind its back
TamperNext ==
  \/ TamperRemote
  \/ TamperDisk
  \/ Restart
  \/ ValidateLicense

TamperSpec == TamperInit /\ [][TamperNext]_vars

\* one validator over time: requests and restarts while the clock moves and the
\* served registry changes
CacheNext ==
  \/ ValidateLicense
  \/ ClientTick
  \/ Restart
  \/ TamperRemote

CacheSpec == TamperInit /\ [][CacheNext]_vars

\* the life of license.json: activation, reads, edits by hand and corruption
RecordNext ==
  \/ ActivateLicense
  \/ ValidateLicense
  \/ GetLicenseInfo
  \/ EditLicenseTopLevel
  \/ CorruptLicenseFile
  \/ ClientTick

RecordSpec == TamperInit /\ [][RecordNext]_vars

(***************************************************************************)
(* The whole service: every kind of delivery, registry requests that run   *)
(* beside the queue, and either revision of the storage module             *)
(***************************************************************************)
ServiceInit ==
  /\ privateBlob = NoDoc
  /\ publicBlob = NoDoc
  /\ writeQueue = 0
  /\ tasks = << >>
  /\ now = 1
  /\ faults = 0
  /\ blobStorage \in StorageRevisions
  /\ request = Idle
  /\ response = NoResponse
  /\ lastLoad = NoLoad
  /\ LimiterAtRest
  /\ ClientAtRest

\* the price ids a subscription can carry: listed, not listed, none
PriceInputs == Prices \cup {"price_retired_founder", NoPrice}

\* checkout sessions: each customer's own subscription at a listed price,
\* and customer 1's session with one part missing or the price not listed
CheckoutInputs ==
  {[customer |-> c, subscription |-> c, price |-> p] :
     c \in Customers, p \in PriceInputs}
  \cup {[customer |-> Missing, subscription |-> 1, price |-> p] : p \in Prices}
  \cup {[customer |-> 1, subscription |-> Missing, price |-> p] : p \in Prices}

\* deliveries that queue a write, up to MaxDeliveries of them
CanQueue(error) == error \/ Len(tasks) < MaxDeliveries

CheckoutDelivery ==
  \E session \in CheckoutInputs :
    /\ CanQueue(\/ session.customer = Missing
                \/ session.subscription = Missing
                \/ session.price \notin Prices)
    /\ handleCheckoutCompleted(session.customer, CustomerEmail(session.customer),
                               session.subscription, session.price)

PaymentDelivery == \E invoiceId \in {Missing, 1} : handlePaymentSucceeded(invoiceId)

CancelDelivery ==
  \E s \in Subscriptions \cup {Missing} :
    /\ CanQueue(s = Missing)
    /\ handleSubscriptionCanceled(s)

RequestStartStep == \E o \in LoadOutcomes(publicBlob) : RequestStart(o)
RequestLoadPrivateStep == \E o \in LoadOutcomes(privateBlob) : RequestLoadPrivate(o)
RequestSavePublicStep == \E o \in Outcomes : RequestSavePublic(o)

ServiceNext ==
  \/ CheckoutDelivery
  \/ PaymentDelivery
  \/ CancelDelivery
  \/ WebhookUnverified
  \/ WebhookUnhandled
  \/ StartStep
  \/ SavePrivateStep
  \/ SavePublicStep
  \/ RequestStartStep
  \/ RequestLoadPrivateStep
  \/ RequestSavePublicStep

ServiceSpec == ServiceInit /\ [][ServiceNext]_vars

\* the two rate-limited endpoints under requests from a few addresses
LimiterNext ==
  \/ HealthRequest
  \/ DbRequest
  \/ RateClock
  \/ WaitRetryAfter

LimiterSpec == Init /\ [][LimiterNext]_vars

\* the queue under one customer's deliveries and a frozen clock
OneCustomerCheckout ==
  \E p \in Prices : handleCheckoutCompleted(1, CustomerEmail(1), 1, p)

OneSubscriptionCanceled == handleSubscriptionCanceled(1)

QueueNext ==
  \/ OneCustomerCheckout
  \/ OneSubscriptionCanceled
  \/ StartStep
  \/ SavePrivateStep
  \/ SavePublicStep

\* the event loop runs every settled continuation; storage calls return
FairSpec ==
  /\ Init
  /\ [][QueueNext]_vars
  /\ WF_vars(StartStep)
  /\ WF_vars(SavePrivateStep)
  /\ WF_vars(SavePublicStep)

(***************************************************************************)
(* Registry write queue                                                    *)
(***************************************************************************)
TaskIds == 1..Len(tasks)
AllSettled == \A t \in TaskIds : Settled(t)
IssueTasks == {t \in TaskIds : tasks[t].kind = "issue"}
CancelTasks == {t \in TaskIds : tasks[t].kind = "cancel"}

\* the entries a cancellation marked
MarkedBy(t) ==
  IF tasks[t].database.exists
  THEN MatchedKeys(tasks[t].database, tasks[t].subscriptionId)
  ELSE {}

\* the registry obtained by applying, in enqueue order, the first n tasks' writes
RECURSIVE SerialDatabase(_)
SerialDatabase(n) ==
  IF n = 0 THEN loadLicenseDatabase(NoDoc, 1)
  ELSE LET before == SerialDatabase(n - 1)
       IN IF ~tasks[n].wrote THEN before
          ELSE IF tasks[n].kind = "issue"
          THEN AddEntry(before, tasks[n].licenseKey, tasks[n].customerInfo, tasks[n].at)
          ELSE CancelEntries(before, tasks[n].subscriptionId, tasks[n].at)

\* the last task that wrote an entry for key k
LastIssue(k) ==
  LET ws == {t \in IssueTasks : tasks[t].wrote /\ tasks[t].licenseKey = k}
  IN CHOOSE t \in ws : \A u \in ws : u <= t

EntryHasInfo(entry, info) ==
  /\ entry.customerId = info.customerId
  /\ entry.tier = info.tier
  /\ entry.isFounder = info.isFounder
  /\ entry.email = info.email
  /\ entry.subscriptionId = info.subscriptionId

IsCanceled(entry) == "status" \in DOMAIN entry /\ entry.status = "canceled"

IssuedKeysPresent ==
  \A t \in IssueTasks :
    tasks[t].state = "fulfilled" =>
      /\ tasks[t].licenseKey \in DOMAIN privateBlob.licenses
      /\ EntryHasInfo(privateBlob.licenses[tasks[t].licenseKey],
                      tasks[LastIssue(tasks[t].licenseKey)].customerInfo)

InProgress(t) == tasks[t].pc \in {"savingPrivate", "savingPublic"}

\* C2: a write task begins only after every task enqueued before it has
\* settled, and no two tasks are between their load and their last save at
\* the same time.
C2_OneAtATimeInOrder ==
  /\ \A t \in TaskIds :
       tasks[t].pc # "queued" => \A u \in 1..(t - 1) : Settled(u)
  /\ \A t, u \in TaskIds : (InProgress(t) /\ InProgress(u)) => t = u

\* a task in progress behind a failed one and ahead of a queued one
C2_Witness ==
  /\ Len(tasks) >= 3
  /\ tasks[1].state = "rejected"
  /\ InProgress(2)
  /\ tasks[3].pc = "queued"

\* C3: every enqueued write eventually executes, also behind a failed write.
C3_EveryWriteExecutes ==
  []<>(\A t \in TaskIds : tasks[t].ran)

\* a write that executed after the write enqueued before it had failed
C3_Witness ==
  \E t \in TaskIds :
    /\ t > 1
    /\ tasks[t - 1].state = "rejected"
    /\ tasks[t].ran
    /\ tasks[t].state = "fulfilled"

\* C4: a settled write reports failure exactly when its own task threw, with
\* the error that task threw, and reports success when its own task returned.
C4_CallerSeesOwnOutcome ==
  \A t \in TaskIds :
    Settled(t) =>
      /\ tasks[t].ran
      /\ tasks[t].state = "rejected" <=> tasks[t].thrown # NoError
      /\ tasks[t].error = tasks[t].thrown
      /\ tasks[t].state = "rejected" => tasks[t].error.task = t

\* a failed write followed by a write that reported success
C4_Witness ==
  \E t, u \in TaskIds :
    /\ t < u
    /\ tasks[t].state = "rejected"
    /\ tasks[t].error = [task |-> t, cause |-> "savePublic"]
    /\ tasks[u].state = "fulfilled"

IssuedIdentities ==
  {<<tasks[t].customerInfo.customerId, tasks[t].customerInfo.tier,
     tasks[t].customerInfo.isFounder>> : t \in {u \in IssueTasks : tasks[u].wrote}}

Redacted(registry) ==
  \A k \in DOMAIN registry.licenses :
    /\ "customerId" \notin DOMAIN registry.licenses[k]
    /\ "subscriptionId" \notin DOMAIN registry.licenses[k]

\* C6: no entry of a derived public registry, stored or about to be stored,
\* carries customerId or subscriptionId.
C6_PublicRedaction ==
  /\ Redacted(publicBlob)
  /\ \A t \in TaskIds : Redacted(tasks[t].publicRegistry)

\* a stored public registry derived from entries that carry both fields,
\* one of them canceled
C6_Witness ==
  /\ publicBlob.exists
  /\ DOMAIN publicBlob.licenses = DOMAIN privateBlob.licenses
  /\ \E k \in DOMAIN privateBlob.licenses :
       /\ privateBlob.licenses[k].customerId \in Customers
       /\ privateBlob.licenses[k].subscriptionId \in Subscriptions
       /\ IsCanceled(privateBlob.licenses[k])

(***************************************************************************)
(* Client claims                                                           *)
(***************************************************************************)
ClientCalls == {"validate", "activate"}

\* the last step was a call that tried the network and failed
NetworkFailed ==
  /\ lastCall.op \in ClientCalls
  /\ lastCall.attempted
  /\ lastCall.netError # "none"

\* the last step was a call that looked the key up in a registry
LookedUp ==
  /\ lastCall.op \in ClientCalls
  /\ lastCall.src \in {"memory", "network", "disk"}

\* the entry's signature is the registry key's signature over the payload
\* built from the entry
EntrySignatureValid(k, entry) ==
  verifyPayload(
    stableStringifyPayload(
      buildLicensePayload(k, entry.tier, entry.isFounder, entry.emailHash, entry.issued)),
    entry.signature, PublicKeyOf(LICENSE_REGISTRY_PRIVATE_KEY))

SignedByKey(doc) ==
  /\ env.publicKey # NoKey
  /\ HasRegistrySignature(doc)

\* C7 as stated: once an entry field of a verified registry document is changed
\* without recomputing hash and registrySignature, the document fails
\* verification on the network path and on the disk path, and no call
\* validates against it or caches it
C7_TamperedRejected ==
  /\ (remote.kind = "registry" /\ remote.tampered)
       => verifyRegistrySignature(remote.doc) # "ok"
  /\ (disk.kind = "json" /\ disk.tampered)
       => loadLegitimateDatabase(disk) = NoLicenses
  /\ ~dbCache.tampered
  /\ ~lastCall.usedTampered

\* C7: an edited document that carries a registrySignature is rejected on the
\* network path and on the disk path whenever a public key is configured, and
\* then no call validates against it or caches it
C7_SignedTamperedRejected ==
  /\ (remote.kind = "registry" /\ remote.tampered /\ SignedByKey(remote.doc))
       => verifyRegistrySignature(remote.doc) # "ok"
  /\ (disk.kind = "json" /\ disk.tampered /\ SignedByKey(disk.doc))
       => loadLegitimateDatabase(disk) = NoLicenses
  /\ (env.publicKey # NoKey /\ dbCache.signed) => ~dbCache.tampered
  /\ (env.publicKey # NoKey /\ lastCall.usedSigned) => ~lastCall.usedTampered

\* an edited signed cache was on disk when the network failed, and the call
\* found no cached data
C7_Witness ==
  /\ env.publicKey # NoKey
  /\ disk.kind = "json" /\ disk.tampered /\ SignedByKey(disk.doc)
  /\ NetworkFailed
  /\ lastCall.threw

\* C8 as stated: valid from the registry only with the key present and its
\* entry signature valid; absent key gives KEY_NOT_FOUND; missing or invalid
\* entry signature gives the tampered outcome
C8_ValidOnlyIfSigned ==
  LookedUp =>
    LET v == lastCall.validation
        reg == lastCall.licenses
        k == lastCall.key
    IN /\ (v.valid /\ v.source = "legitimate_database")
            => (k \in DOMAIN reg /\ EntrySignatureValid(k, reg[k]))
       /\ k \notin DOMAIN reg => v.error = "KEY_NOT_FOUND"
       /\ (k \in DOMAIN reg /\ ~EntrySignatureValid(k, reg[k]))
            => v.error \in {"MISSING_SIGNATURE", "SIGNATURE_INVALID"}

EmailAccepted(email, entry) ==
  \/ email = NoEmail
  \/ HasAt(email) /\ hashEmail(email) = entry.emailHash

\* C8: with a public key configured, valid from the registry only with the key
\* present and its entry signature valid; an absent key gives KEY_NOT_FOUND in
\* a registry with entries and the empty-registry error otherwise; a missing
\* or invalid entry signature is never valid, and gives the tampered outcome
\* once the email checks have passed
C8_ValidOnlyIfSignedUnderKey ==
  LookedUp =>
    LET v == lastCall.validation
        reg == lastCall.licenses
        k == lastCall.key
    IN /\ (v.valid /\ v.source = "legitimate_database")
            => /\ k \in DOMAIN reg
               /\ reg[k].signature # NoSignature
               /\ env.publicKey # NoKey => EntrySignatureValid(k, reg[k])
               /\ v.tier = reg[k].tier /\ v.isFounder = reg[k].isFounder
       /\ k \notin DOMAIN reg
            => v.error = IF DOMAIN reg = {} THEN "REGISTRY_EMPTY" ELSE "KEY_NOT_FOUND"
       /\ (k \in DOMAIN reg /\ ~EntrySignatureValid(k, reg[k]) /\ env.publicKey # NoKey)
            => /\ ~v.valid
               /\ EmailAccepted(lastCall.email, reg[k])
                    => v.error = IF reg[k].signature = NoSignature
                                 THEN "MISSING_SIGNATURE" ELSE "SIGNATURE_INVALID"
               /\ ~EmailAccepted(lastCall.email, reg[k])
                    => v.error \in {"INVALID_EMAIL", "EMAIL_MISMATCH"}

\* under a configured key, an entry signed with another key was refused
C8_Witness ==
  /\ LookedUp
  /\ env.publicKey # NoKey
  /\ lastCall.key \in DOMAIN lastCall.licenses
  /\ lastCall.licenses[lastCall.key].signature # NoSignature
  /\ ~EntrySignatureValid(lastCall.key, lastCall.licenses[lastCall.key])
  /\ lastCall.validation.error = "SIGNATURE_INVALID"

\* the disk cache is present, passes verification and has entries
UsableCache ==
  /\ disk.kind = "json"
  /\ verifyRegistrySignature(disk.doc) = "ok"
  /\ DOMAIN disk.doc.licenses # {}

\* C9: when the network fetch fails and the disk cache is present and passes
\* verification, validating a key of the cache whose entry signature is valid,
\* with the matching email, succeeds from the cache
C9_OfflineFallback ==
  (/\ NetworkFailed
   /\ UsableCache
   /\ lastCall.key \in DOMAIN disk.doc.licenses
   /\ EntrySignatureValid(lastCall.key, disk.doc.licenses[lastCall.key])
   /\ HasAt(lastCall.email)
   /\ hashEmail(lastCall.email) = disk.doc.licenses[lastCall.key].emailHash)
    => /\ ~lastCall.threw
       /\ lastCall.src = "disk"
       /\ lastCall.licenses = disk.doc.licenses
       /\ lastCall.validation.valid
       /\ lastCall.validation.source = "legitimate_database"
       /\ lastCall.validation.tier = disk.doc.licenses[lastCall.key].tier

\* in production, with the network down, a known-good key validated from disk
C9_Witness ==
  /\ env.nodeEnv = "production"
  /\ NetworkFailed
  /\ lastCall.netError = "network"
  /\ UsableCache
  /\ lastCall.src = "disk"
  /\ lastCall.validation.valid

PublishedInUse ==
  /\ remote.kind = "registry"
  /\ verifyRegistrySignature(remote.doc) = "ok"
  /\ dbCache.set => dbCache.licenses = remote.doc.licenses

\* C11: with the network up, activating a key of the served registry whose
\* entry is soundly signed is accepted with the address the entry's emailHash
\* was made from, leaving a local record for the key, and with another
\* address is rejected with EMAIL_MISMATCH without writing a local record
C11_EmailBinding ==
  (/\ lastCall.op = "activate"
   /\ lastCall.net = "ok"
   /\ PublishedInUse
   /\ lastCall.key \in DOMAIN remote.doc.licenses
   /\ EntrySignatureValid(lastCall.key, remote.doc.licenses[lastCall.key])
   /\ HasAt(lastCall.email))
    => IF hashEmail(lastCall.email) = remote.doc.licenses[lastCall.key].emailHash
       THEN /\ lastCall.result.valid
            /\ licenseFile.kind = "json"
            /\ licenseFile.record.licenseKey = lastCall.key
       ELSE /\ ~lastCall.result.valid
            /\ lastCall.result.error = "EMAIL_MISMATCH"
            /\ ~lastCall.wroteRecord

\* the same for activations that look the key up in the registry
C11_EmailBindingOnLookup ==
  (/\ lastCall.op = "activate"
   /\ LookedUp
   /\ lastCall.key \in DOMAIN lastCall.licenses
   /\ EntrySignatureValid(lastCall.key, lastCall.licenses[lastCall.key])
   /\ HasAt(lastCall.email))
    => IF hashEmail(lastCall.email) = lastCall.licenses[lastCall.key].emailHash
       THEN /\ lastCall.result.valid
            /\ lastCall.wroteRecord
            /\ licenseFile.kind = "json"
            /\ licenseFile.record.licenseKey = lastCall.key
            /\ licenseFile.record.email = lastCall.email
       ELSE /\ ~lastCall.result.valid
            /\ lastCall.result.error = "EMAIL_MISMATCH"
            /\ ~lastCall.wroteRecord

\* license.json holds a record for key k whose signature verifies over its
\* stored payload under the configured key (or is waved through by the
\* developer bypass when no key is configured)
RecordVerifies(k) ==
  /\ licenseFile.kind = "json"
  /\ licenseFile.record.licenseKey = k
  /\ licenseFile.record.payload # NoPayload
  /\ licenseFile.record.signature # NoSignature
  /\ IF env.publicKey = NoKey THEN isDevBypassAllowed
     ELSE verifyPayload(stableStringifyPayload(licenseFile.record.payload),
                        licenseFile.record.signature, env.publicKey)

\* the last step was validateLicense, called directly or by an activation
\* that got past its format checks (wroteRecord tells whether that call is
\* the one that wrote license.json)
ValidationRan ==
  \/ lastCall.op = "validate"
  \/ lastCall.op = "activate" /\ HasAt(lastCall.email)

\* C12: a successful activateLicense leaves a local record with the validated
\* payload and signature, and while a record for a key exists and re-verifies,
\* every validation of that key is answered valid from the local record with
\* no network request
C12_LocalRecordShortCircuit ==
  /\ (lastCall.op = "activate" /\ lastCall.result.valid)
       => /\ licenseFile.kind = "json"
          /\ licenseFile.record.licenseKey = lastCall.key
          /\ licenseFile.record.payload = lastCall.validation.payload
          /\ licenseFile.record.signature = lastCall.validation.signature
          /\ licenseFile.record.payload # NoPayload
          /\ licenseFile.record.signature # NoSignature
          /\ RecordVerifies(lastCall.key)
  /\ (ValidationRan /\ ~lastCall.wroteRecord /\ RecordVerifies(lastCall.key))
       => /\ lastCall.validation.valid
          /\ lastCall.validation.source = "local_file"
          /\ lastCall.validation.tier = licenseFile.record.tier
          /\ ~lastCall.attempted
          /\ lastCall.src = "none"
  /\ (ValidationRan /\ lastCall.validation.source = "local_file")
       => (RecordVerifies(lastCall.key) /\ ~lastCall.wroteRecord)

\* with the network down and a registry that no longer verifies, an activated
\* key was still answered from the local record
C12_Witness ==
  /\ env.nodeEnv = "production"
  /\ lastCall.op = "validate"
  /\ lastCall.net = "error"
  /\ RecordVerifies(lastCall.key)
  /\ lastCall.validation.valid
  /\ lastCall.validation.source = "local_file"

\* license.json holds a payload and a signature, and the signature is the
\* registry key's signature over that payload
RecordSound ==
  /\ licenseFile.record.payload # NoPayload
  /\ licenseFile.record.signature # NoSignature
  /\ verifyPayload(stableStringifyPayload(licenseFile.record.payload),
                   licenseFile.record.signature,
                   PublicKeyOf(LICENSE_REGISTRY_PRIVATE_KEY))

\* C13 as stated: a local record without payload or signature, or whose
\* signature does not verify over its payload, never answers a validation from
\* the local record and never gives a paid tier in getLicenseInfo
C13_UnsoundRecordUntrusted ==
  (licenseFile.kind = "json" /\ ~RecordSound)
    => /\ getLicenseInfo.tier = "FREE"
       /\ (ValidationRan /\ lastCall.key = licenseFile.record.licenseKey)
            => lastCall.validation.source # "local_file"

\* C13: outside developer mode such a record gives the FREE tier in
\* getLicenseInfo, and unless the developer bypass stands in for a missing
\* public key it never answers a validation from the local record
C13_UnsoundRecordUntrustedOutsideDev ==
  (licenseFile.kind = "json" /\ ~RecordSound)
    => /\ ~isDeveloperMode
            => /\ getLicenseInfo.tier = "FREE"
               /\ getLicenseInfo.error # "none"
       /\ (/\ ~(env.publicKey = NoKey /\ isDevBypassAllowed)
           /\ ValidationRan
           /\ lastCall.key = licenseFile.record.licenseKey)
            => /\ lastCall.validation.source # "local_file"
               /\ ~lastCall.wroteRecord

\* in production an edited record was read: FREE tier, and the validation of
\* its key went to the registry
C13_Witness ==
  /\ env.nodeEnv = "production"
  /\ licenseFile.kind = "json"
  /\ ~RecordSound
  /\ lastCall.op = "validate"
  /\ lastCall.key = licenseFile.record.licenseKey
  /\ lastCall.src # "none"
  /\ getLicenseInfo.tier = "FREE"

\* the document carries no registrySignature, or none can be checked
Uncheckable(doc) == ~HasRegistrySignature(doc) \/ env.publicKey = NoKey

\* C14: in production the developer switches change nothing: a registry that
\* is unsigned or cannot be checked for want of a public key is rejected on
\* the network and on the disk path, a registry entry or local record is only
\* accepted with a signature that verifies under the configured key, and
\* getLicenseInfo reports PRO only from a soundly signed local record
C14_NoBypassInProduction ==
  env.nodeEnv = "production"
    => /\ (remote.kind = "registry" /\ Uncheckable(remote.doc))
            => verifyRegistrySignature(remote.doc) # "ok"
       /\ (disk.kind = "json" /\ Uncheckable(disk.doc))
            => loadLegitimateDatabase(disk) = NoLicenses
       /\ LookedUp => (lastCall.usedSigned /\ env.publicKey # NoKey)
       /\ (ValidationRan /\ lastCall.validation.valid)
            => /\ env.publicKey # NoKey
               /\ lastCall.validation.source = "legitimate_database"
                    => EntrySignatureValid(lastCall.key,
                                           lastCall.licenses[lastCall.key])
               /\ lastCall.validation.source = "local_file" => RecordSound
       /\ ~getLicenseInfo.isDeveloper
       /\ getLicenseInfo.tier = "PRO"
            => (licenseFile.kind = "json" /\ RecordSound /\ env.publicKey # NoKey)

\* production with QAA_DEVELOPER=true and no public key: the served registry
\* was refused and the call ended without data
C14_Witness ==
  /\ env.nodeEnv = "production"
  /\ env.developer
  /\ env.publicKey = NoKey
  /\ remote.kind = "registry"
  /\ lastCall.op \in ClientCalls
  /\ lastCall.net = "ok"
  /\ lastCall.netError = "license public key not configured"
  /\ lastCall.threw
  /\ getLicenseInfo.tier = "FREE"

(***************************************************************************)
(* Service claims                                                          *)
(***************************************************************************)
RegistryKeys(doc) == IF doc.exists THEN DOMAIN doc.licenses ELSE {}

\* every queued write has settled and no registry request is under way
Quiescent ==
  /\ \A t \in 1..Len(tasks) : Settled(t)
  /\ request.pc = "idle"

\* pub holds exactly the keys of priv, each with priv's tier, isFounder, issued
IsRedactionOf(pub, priv) ==
  /\ RegistryKeys(pub) = RegistryKeys(priv)
  /\ \A k \in RegistryKeys(pub) :
       /\ pub.licenses[k].tier = priv.licenses[k].tier
       /\ pub.licenses[k].isFounder = priv.licenses[k].isFounder
       /\ pub.licenses[k].issued = priv.licenses[k].issued

\* C15: whenever no registry write is in progress, the stored public registry
\* holds exactly the keys of the stored private registry, each with the same
\* tier, isFounder and issued, whatever the interleaving of issuances,
\* cancellations and registry requests.
C15_PublicIsRedaction ==
  Quiescent => IsRedactionOf(publicBlob, privateBlob)

\* C16: every public registry document the service has persisted is accepted
\* by the client's registry verification under the matching public key, and
\* each of its entries passes the client's per-entry signature check.
C16_PersistedRegistryVerifies ==
  (publicBlob.exists /\ env.publicKey = PublicKeyOf(LICENSE_REGISTRY_PRIVATE_KEY))
    => /\ verifyRegistrySignature(publicBlob) = "ok"
       /\ publicBlob.licenses = loadLegitimateDatabase(
                                  [kind |-> "json", doc |-> publicBlob,
                                   tampered |-> FALSE])
       /\ \A k \in DOMAIN publicBlob.licenses :
            /\ publicBlob.licenses[k].signature # NoSignature
            /\ verifySignature(
                 stableStringifyPayload(
                   buildLicensePayload(k, publicBlob.licenses[k].tier,
                                       publicBlob.licenses[k].isFounder,
                                       publicBlob.licenses[k].emailHash,
                                       publicBlob.licenses[k].issued)),
                 publicBlob.licenses[k].signature)
            /\ LookupLicense(publicBlob.licenses, k, NoEmail).valid

\* a persisted public registry with an entry that a later cancellation marked
\* in the private registry
C16_Witness ==
  /\ publicBlob.exists
  /\ env.publicKey = PublicKeyOf(LICENSE_REGISTRY_PRIVATE_KEY)
  /\ \E k \in DOMAIN publicBlob.licenses :
       /\ k \in DOMAIN privateBlob.licenses
       /\ "status" \in DOMAIN privateBlob.licenses[k]
  /\ \E t \in 1..Len(tasks) : tasks[t].kind = "cancel" /\ tasks[t].state = "fulfilled"

\* C17: loading a registry document returns null only when the blob is
\* genuinely absent; any other metadata failure, a non-success content fetch
\* or unparsable content is raised as an error.
C17_NullOnlyWhenAbsent ==
  /\ lastLoad.returnedNull => (~lastLoad.exists /\ lastLoad.outcome = "ok")
  /\ lastLoad.outcome \in LoadFailures => lastLoad.threw

\* C18: when the write of the private or of the public registry blob fails in
\* an issuance or cancellation, the save raises an error and the delivery is
\* answered 500, never 200.
C18_FailedWriteFailsDelivery ==
  \A t \in 1..Len(tasks) :
    (tasks[t].saveFailed /\ Settled(t))
      => /\ tasks[t].thrown.cause \in {"savePrivate", "savePublic"}
         /\ tasks[t].state = "rejected"
         /\ ResponseOf(t).status = 500

WebhookEvents ==
  {"checkout.session.completed", "invoice.payment_succeeded",
   "customer.subscription.deleted", "unhandled"}

\* the write of task t did not take place as the event asked: its body threw,
\* or one of its blob writes did not persist
ProcessingFailed(t) == tasks[t].thrown # NoError \/ tasks[t].saveFailed

\* the route answers by what the handler let it see: 400 for an unverified
\* delivery, 500 when the handler raised, 200 otherwise
C19_AnsweredAsHandled ==
  /\ response.event = "unverified" => response.status = 400
  /\ response.event \in WebhookEvents
       => response.status = (IF response.error = "none" THEN 200 ELSE 500)
  /\ \A t \in 1..Len(tasks) :
       Settled(t) =>
         ResponseOf(t).status = (IF tasks[t].thrown = NoError THEN 200 ELSE 500)

\* C19: a delivery whose signature check fails is answered 400 and is not
\* processed (no registry read or write); a verified event is answered 200
\* when it was processed successfully or is of an ignored or unknown type,
\* and 500 when processing fails.
C19_WebhookStatus ==
  /\ [][(response' # response /\ response'.event = "unverified")
          => /\ response'.status = 400
             /\ lastLoad' = NoLoad
             /\ UNCHANGED <<privateBlob, publicBlob, tasks, writeQueue, faults>>]_vars
  /\ [](/\ response.event = "unverified" => response.status = 400
        /\ response.event \in {"invoice.payment_succeeded", "unhandled"}
             => response.status = (IF response.error = "none" THEN 200 ELSE 500)
        /\ response.event \in {"checkout.session.completed",
                               "customer.subscription.deleted"}
             => (response.error # "none" /\ response.status = 500)
        /\ \A t \in 1..Len(tasks) :
             Settled(t) =>
               ResponseOf(t).status = (IF ProcessingFailed(t) THEN 500 ELSE 200))

UnknownPriceAnswer(r) ==
  /\ r.event = "checkout.session.completed"
  /\ r.error = "Unknown Stripe price ID"

\* C20: a checkout-completed event whose price is not in the plan table fails
\* loudly: no tier is defaulted, no entry is created, the private and public
\* registries are left as they were, and processing reports an error.
C20_UnknownPriceFailsLoudly ==
  /\ [][(response' # response /\ UnknownPriceAnswer(response'))
          => UNCHANGED <<privateBlob, publicBlob, tasks, writeQueue>>]_vars
  /\ [](/\ UnknownPriceAnswer(response) => response.status = 500
        /\ \A t \in 1..Len(tasks) :
             tasks[t].kind = "issue"
               => /\ tasks[t].listedPrice
                  /\ tasks[t].customerInfo.tier \in
                       {mapPriceToTier(p).tier : p \in Prices}
        /\ \A k \in RegistryKeys(privateBlob) :
             privateBlob.licenses[k].tier \in {mapPriceToTier(p).tier : p \in Prices}
        /\ \A k \in RegistryKeys(publicBlob) :
             publicBlob.licenses[k].tier \in {mapPriceToTier(p).tier : p \in Prices})

\* an unlisted price was refused while the registry already held a license
C20_Witness ==
  /\ UnknownPriceAnswer(response)
  /\ response.status = 500
  /\ RegistryKeys(privateBlob) # {}
  /\ RegistryKeys(publicBlob) = RegistryKeys(privateBlob)

(***************************************************************************)
(* Rate limiter claims                                                     *)
(***************************************************************************)
\* how many requests of ip the limiter let through at times t .. t + windowMs - 1
AdmittedIn(limiter, ip, t) ==
  Cardinality({i \in 1..Len(admitted[limiter][ip]) :
                 /\ t <= admitted[limiter][ip][i]
                 /\ admitted[limiter][ip][i] < t + windowMs})

\* C21: for each limiter and each client IP, the requests let through within
\* any window of length windowMs number at most maxRequests, after any
\* sequence of requests from any set of IPs, lazy pruning and bulk sweeps
\* included (every window with the most requests starts at a request).
C21_WindowLimit ==
  \A limiter \in Limiters, ip \in Ips :
    \A i \in 1..Len(admitted[limiter][ip]) :
      AdmittedIn(limiter, ip, admitted[limiter][ip][i]) <= maxRequests(limiter)

\* an address got more than maxRequests requests through over time, the last
\* one by a request whose bulk sweep dropped another address's expired entry
C21_Witness ==
  \E limiter \in Limiters, ip \in Ips :
    /\ Len(admitted[limiter][ip]) > maxRequests(limiter)
    /\ reply.status = 200
    /\ reply.swept
    /\ \E other \in Ips \ {ip} :
         /\ admitted[limiter][other] # << >>
         /\ other \notin DOMAIN requests[limiter]


\* C22: a rejected request is told a whole number of seconds to wait, between 1
\* and the window length, and the same address asking again exactly that many
\* seconds later, with no request of its own let through in between, is let
\* through.
C22_RetryAfterAdmits ==
  /\ reply.status = 429 => reply.retryAfter \in 1..(windowMs \div 1000)
  /\ reply.dueRetry => reply.status = 200

\* a rejected address waited the retryAfter it was given, one that is not the
\* whole window, and was let through
C22_Witness ==
  /\ reply.dueRetry
  /\ reply.status = 200
  /\ \E i \in 1..Len(admitted[reply.limiter][reply.ip]) :
       /\ admitted[reply.limiter][reply.ip][i] < reply.at
       /\ reply.at - admitted[reply.limiter][reply.ip][i] > windowMs


(***************************************************************************)
(* Client cache claims                                                     *)
(***************************************************************************)
\* the step is a call that asked fetchLegitimateDatabase for the registry
FetchRequested == lastCall'.op # "none" /\ (lastCall'.src # "none" \/ lastCall'.attempted)

\* C23: once a registry fetch has succeeded at time t (the validator holds it in
\* memory with dbCacheTime = t), every fetch request made before t + 5 minutes
\* is answered from memory without a network request, and a request made at or
\* after t + 5 minutes goes to the network again.
C23_CacheLifetime ==
  [][FetchRequested =>
       IF dbCache.set /\ clientNow < dbCacheTime + 5 * 60 * 1000
       THEN lastCall'.src = "memory" /\ ~lastCall'.attempted
       ELSE lastCall'.attempted /\ lastCall'.src # "memory"]_vars

\* a request made exactly five minutes after the successful fetch went to the
\* network, which failed, so the time of the last success is still t
C23_Witness ==
  /\ dbCache.set
  /\ clientNow = dbCacheTime + cacheTTL
  /\ lastCall.attempted
  /\ lastCall.netError # "none"


(***************************************************************************)
(* Cancellation claims                                                     *)
(***************************************************************************)
CancellationFields == {"status", "canceledAt"}

\* entry `after` is entry `before` marked canceled at time `clock`, every other
\* field as it was
IsCanceledCopy(before, after, clock) ==
  /\ DOMAIN after = DOMAIN before \cup CancellationFields
  /\ after.status = "canceled"
  /\ after.canceledAt = clock
  /\ \A f \in DOMAIN before \ CancellationFields : after[f] = before[f]

\* task t is a cancellation that writes the private registry in this step
CancellationWrites(t) ==
  /\ tasks[t].kind = "cancel"
  /\ tasks[t].pc = "savingPrivate"
  /\ tasks'[t].wrote

\* C24: the write of a cancellation for subscription S marks every entry of S
\* canceled with a timestamp and leaves every other entry, and every other field
\* of the canceled entries, as they were; a cancellation that matches no entry
\* writes nothing.
C24_CancellationMarksOnly ==
  /\ [][\A t \in 1..Len(tasks) :
          CancellationWrites(t) =>
            /\ MatchedKeys(privateBlob, tasks[t].subscriptionId) # {}
            /\ DOMAIN privateBlob'.licenses = DOMAIN privateBlob.licenses
            /\ \A k \in DOMAIN privateBlob.licenses :
                 IF privateBlob.licenses[k].subscriptionId = tasks[t].subscriptionId
                 THEN IsCanceledCopy(privateBlob.licenses[k],
                                     privateBlob'.licenses[k], tasks[t].at)
                 ELSE privateBlob'.licenses[k] = privateBlob.licenses[k]]_vars
  /\ [][\A t \in 1..Len(tasks) :
          (/\ tasks[t].kind = "cancel"
           /\ tasks[t].pc = "queued"
           /\ tasks'[t].pc # "queued"
           /\ MatchedKeys(privateBlob, tasks[t].subscriptionId) = {})
          => tasks'[t].pc = "done" /\ ~tasks'[t].wrote]_vars

\* a cancellation wrote a registry that holds a canceled entry next to an entry
\* of another subscription, which is not canceled
C24_Witness ==
  \E t \in 1..Len(tasks) :
    /\ tasks[t].kind = "cancel"
    /\ tasks[t].wrote
    /\ tasks[t].pc = "done"
    /\ \E k, j \in DOMAIN privateBlob.licenses :
         /\ privateBlob.licenses[k].subscriptionId = tasks[t].subscriptionId
         /\ "status" \in DOMAIN privateBlob.licenses[k]
         /\ privateBlob.licenses[j].subscriptionId # tasks[t].subscriptionId
         /\ "status" \notin DOMAIN privateBlob.licenses[j]


(***************************************************************************)
(* Local record claims                                                     *)
(***************************************************************************)
\* the step read license.json without writing it
ReadOnlyCall == lastCall'.op \in {"validate", "info"} /\ ~isDeveloperMode

\* C25: when a read finds license.json corrupted (unparsable), a timestamped
\* backup copy is retained and the corrupted file is deleted, so that after the
\* read no local record exists at the license file path.
C25_CorruptedRecordDeleted ==
  [][(licenseFile.kind = "corrupt" /\ ReadOnlyCall)
       => (clientNow \in backups' /\ licenseFile'.kind = "absent")]_vars

\* the part of C25 the reader does keep: every read of a corrupted license.json
\* leaves a backup named after the time of the read
C25_BackupRetained ==
  [][(licenseFile.kind = "corrupt" /\ ReadOnlyCall)
       => (clientNow \in backups' /\ backups \subseteq backups')]_vars


\* license.json holds a record that getLocalLicense reports as valid
RecordReportedValid ==
  /\ licenseFile.kind = "json"
  /\ getLocalLicense(licenseFile).valid

\* C27: the tier and license key the program reports for a local record are the
\* tier and licenseKey of the record's signed payload, whatever the top-level
\* tier and licenseKey of the file say.
C27_ReportsSignedFields ==
  /\ (RecordReportedValid /\ ~isDeveloperMode /\ getLicenseInfo.error = "none")
       => getLicenseInfo.tier = licenseFile.record.payload.tier
  /\ (lastCall.op \in {"validate", "activate"}
      /\ lastCall.validation.source = "local_file")
       => /\ lastCall.validation.tier = licenseFile.record.payload.tier
          /\ lastCall.key = licenseFile.record.payload.licenseKey

\* the first half of C27 alone: the tier getLicenseInfo reports
C27_InfoTierIsSigned ==
  (RecordReportedValid /\ ~isDeveloperMode /\ getLicenseInfo.error = "none")
    => getLicenseInfo.tier = licenseFile.record.payload.tier

\* the second half of C27 alone: the key validateLicense accepts from the record
C27_ValidatedKeyIsSigned ==
  (lastCall.op \in {"validate", "activate"}
   /\ lastCall.validation.source = "local_file")
    => lastCall.key = licenseFile.record.payload.licenseKey


(***************************************************************************)
(* Registry history claims                                                 *)
(***************************************************************************)
\* C26: the set of license keys in the stored private registry never shrinks:
\* no issuance, cancellation or storage read failure removes a stored entry or
\* replaces the registry with an empty one.
C26_KeysNeverShrink ==
  [][RegistryKeys(privateBlob) \subseteq RegistryKeys(privateBlob')]_vars

\* C26 with the storage module that raises read failures
C26_KeysNeverShrinkWhenLoadsThrow ==
  [][blobStorage = "throwing"
       => RegistryKeys(privateBlob) \subseteq RegistryKeys(privateBlob')]_vars


\* task t is the replay of the issuance of entry k: the same key for the same
\* subscription, writing the private registry in this step
ReplayWrites(t, k) ==
  /\ tasks[t].kind = "issue"
  /\ tasks[t].pc = "savingPrivate"
  /\ tasks'[t].wrote
  /\ tasks[t].licenseKey = k
  /\ tasks[t].customerInfo.subscriptionId = privateBlob.licenses[k].subscriptionId

\* C28: once an entry is marked canceled, a re-delivered checkout-completed
\* event for it leaves its canceled status and cancellation timestamp in place.
C28_ReplayKeepsCancellation ==
  [][\A k \in RegistryKeys(privateBlob) :
       (/\ IsCanceled(privateBlob.licenses[k])
        /\ \E t \in 1..Len(tasks) : ReplayWrites(t, k))
       => /\ k \in RegistryKeys(privateBlob')
          /\ IsCanceled(privateBlob'.licenses[k])
          /\ privateBlob'.licenses[k].canceledAt = privateBlob.licenses[k].canceledAt]_vars


\* C29: activation is idempotent: activating a key that is already activated
\* locally with a record that verifies reports success again and leaves a local
\* record that still verifies for that key.
C29_ReactivationSucceeds ==
  [][\A k \in {K1, K2, K3} :
       (/\ RecordVerifies(k)
        /\ lastCall'.op = "activate"
        /\ lastCall'.key = k
        /\ lastCall'.email = licenseFile.record.email)
       => /\ lastCall'.result.valid
          /\ RecordVerifies(k)']_vars

\* the half of C29 that holds: the second activation leaves the verifying
\* record as it was
C29_ReactivationKeepsRecord ==
  [][\A k \in {K1, K2, K3} :
       (/\ RecordVerifies(k)
        /\ lastCall'.op = "activate"
        /\ lastCall'.key = k)
       => /\ licenseFile' = licenseFile
          /\ RecordVerifies(k)']_vars


\* the endpoint answers and the document it serves passes verifyRegistrySignature
RemoteVerifies ==
  /\ remote.kind = "registry"
  /\ verifyRegistrySignature(remote.doc) = "ok"

\* C30: a registry fetch that fails, or that returns a document failing
\* verification, leaves the in-memory cache and the on-disk cache unchanged;
\* a call overwrites a cache only with the registry it has just fetched and
\* verified.
C30_FailedFetchKeepsCaches ==
  [][lastCall'.op # "none" =>
       /\ (lastCall'.attempted /\ (lastCall'.net = "error" \/ ~RemoteVerifies))
            => UNCHANGED <<disk, dbCache, dbCacheTime>>
       /\ (dbCache' # dbCache \/ dbCacheTime' # dbCacheTime
           \/ (disk' # disk /\ disk.kind # "absent"))
            => /\ lastCall'.attempted
               /\ lastCall'.net = "ok"
               /\ RemoteVerifies
               /\ disk'.kind = "json"
               /\ disk'.doc = remote.doc
               /\ dbCache'.set
               /\ dbCache'.licenses = remote.doc.licenses
               /\ dbCacheTime' = clientNow]_vars

\* a fetch returned a document that failed verification while a registry
\* fetched earlier was in the disk cache, and the call fell back to it
C30_Witness ==
  /\ lastCall.attempted
  /\ lastCall.net = "ok"
  /\ ~RemoteVerifies
  /\ lastCall.src = "disk"
  /\ disk.kind = "json"
  /\ disk.doc # remote.doc

====
